---- MODULE Spec2Model ----
(***************************************************************************)
(* A model of the depreldb / scollector collocation index: the binary     *)
(* key/value codec (record/encoding.go), the token id sequence and the    *)
(* index writer (storage/write.go), the frequency aggregator              *)
(* (dataimport) and the grouping / query engine (storage/read.go,         *)
(* storage/resgroup.go).                                                  *)
(*                                                                         *)
(* Byte strings (keys, values, lemmas) are sequences of numbers 0..255.   *)
(* A float64 distance is a rational num/den; a decoded distance, which    *)
(* the code computes as <integer>/10.0, is kept as that integer (tenths). *)
(***************************************************************************)
EXTENDS Integers, Sequences, FiniteSets, TLC

VARIABLES
    dpc,        \* distance codec: "off", "in", "enc", "dec"
    distNum,    \* the distance handed to EncodeDistance is distNum / DistDen
    distByte,   \* the byte EncodeDistance returned
    distOut,    \* what DecodeDistance returned, in tenths
    kpc,        \* key scan: "off", "fill", "scanned"
    db,         \* the ordered key-value store: a function from key to value
    qry,        \* the arguments of the last getRawTokenFreqTx call
    scanKeys,   \* the keys the prefix iterator of that call visited
    scanRes,    \* the records that call returned
    spc,        \* id sequence: "off", "run"
    tidSeq,     \* the tokenIDSequence: [value, cache]
    seqCalls,   \* history: the nextIfNotFound calls that returned, in order
    seqMints,   \* history: how many ids have been minted so far
    seqPanic,   \* whether next() has panicked (the import is aborted)
    ipc,        \* aggregator: "off", "run"
    freqs,      \* the aggregator: [Single, Double], maps from grouping key
    sents,      \* history: the paths ImportSentence was called with
    coocCalls,  \* history: the AddCooc calls of the last ImportSentence
    wpc,        \* writer: "off", "input", "stored", "again", "panic"
    singleFreqs,    \* the singleFreqs argument of StoreData
    pairFreqs,      \* the pairFreqs argument of StoreData
    minPairFreq,    \* the minPairFreq argument of StoreData
    wrFirst,    \* history: the store as the first write phase of two left it
    cpc,        \* query: "off", "ready", "done", "panic", "lookup"
    cmOpts,     \* history: [via, options]: the function called and the options
                \* GetCollocations was given
    cmLookup,   \* [lemma, id, err]: a GetLemmaID call and what it returned
    cmArgs,     \* the arguments of the CalculateMeasures call
    cmOut,      \* the list CalculateMeasures returned
    cmResults,  \* history: the results slice before it is sorted and cut
    cmRanks,    \* history: list1 .. list4 of SortByRRF, as indices of cmResults
    cmGroupers, \* history: sumFreqs1, sumFreqs2, sumCollFreqs after the scan
    cmLog,      \* history: [f1, f2]: the rows added to sumFreqs1 / sumFreqs2,
                \* each with the key it was stored under
    rpc,        \* import run: "off", "parse", "stored", "registered", "done", "panic"
    udDeprel,   \* record.UDDeprelMapping: [items, maxValue]
    extendedDeprels,    \* the labels the Searcher has collected
    corpusSize, \* Searcher.corpusSize
    metadata,   \* the metadata the store holds: [stored, CorpusSize, DeprelMap]
    runSents,   \* history: the sentences analysed so far
    runEncoded, \* history: [Lemma, Readable, Raw]: the labels of the imported
                \* tokens, each with the code ImportUDDeprel gave it
    qst,        \* concurrent queries: for each query [pc, i]: where it is in
                \* building its result items ("off", "lookup", "assign",
                \* "assigning", "done") and the item it is at
    qDeprels,   \* for each query the val.Deprel of its groups, in order
    qOut,       \* for each query the Deprel of the items built so far
    revCache,   \* db.DeprelMapping.revCache
    mapWriting, \* the queries inside an assignment to revCache
    accesses,   \* history: [q, kind]: the reads ("r") and writes ("w") of
                \* revCache, each with the query that made it
    fatal,      \* whether the runtime has stopped the process
    rgpc,       \* Register calls: "off", "run", "panic"
    regCalls,   \* history: [key, code, nth, panic, same]: the Register calls
                \* made for the labels of RegLabels, in order
    regCount,   \* history: how many Register calls have returned
    regBulk,    \* history: [from, n]: the codes from, from + 1, .. given to
                \* the n labels of a run of calls for other labels
    vertical,   \* the events of the vertical file the parser has yet to deliver
    prevTokens, \* Searcher.prevTokens: the Idx of the last tokens, oldest first
    lastTokenIdx, lastSentStartIdx, lastSentEndIdx, foundNewSent,
    srchCorpusSize, \* Searcher.corpusSize
    srchLens,   \* history: the number of tokens of each sentence of the file
    analysed,   \* history: the sentences handed to findPathsToRoot, in order
    grpA, grpB, \* two CollocFreq entries; their first token is a TokenFreq entry
    grpOut,     \* [kind, ka, kb]: the grouping keys computed for them
    cmScan      \* history: [row, key]: the pair rows the scan added to
                \* sumCollFreqs, in order, and the grouping key of each

distVars == <<dpc, distNum, distByte, distOut>>
keyVars == <<kpc, qry, scanKeys, scanRes>>
seqVars == <<spc, seqCalls, seqMints, seqPanic>>
impVars == <<ipc, freqs, sents, coocCalls>>
wrVars == <<wpc, singleFreqs, pairFreqs, minPairFreq, wrFirst>>
vars == <<dpc, distNum, distByte, distOut, kpc, db, qry, scanKeys, scanRes,
          spc, tidSeq, seqCalls, seqMints, seqPanic, ipc, freqs, sents, coocCalls,
          wpc, singleFreqs, pairFreqs, minPairFreq, wrFirst,
          cpc, cmOpts, cmLookup, cmArgs, cmOut, cmResults, cmRanks, cmGroupers, cmLog,
          rpc, udDeprel, extendedDeprels, corpusSize, metadata, runSents, runEncoded,
          qst, qDeprels, qOut, revCache, mapWriting, accesses, fatal,
          rgpc, regCalls, regCount, regBulk,
          vertical, prevTokens, lastTokenIdx, lastSentStartIdx, lastSentEndIdx,
          foundNewSent, srchCorpusSize, srchLens, analysed, grpA, grpB, grpOut,
          cmScan>>
cmVars == <<cpc, cmOpts, cmLookup, cmArgs, cmOut, cmResults, cmRanks, cmGroupers, cmLog,
            cmScan>>
runVars == <<rpc, udDeprel, extendedDeprels, corpusSize, metadata, runSents, runEncoded>>
concVars == <<qst, qDeprels, qOut, revCache, mapWriting, accesses, fatal>>
regVars == <<rgpc, regCalls, regCount, regBulk>>
srchVars == <<vertical, prevTokens, lastTokenIdx, lastSentStartIdx, lastSentEndIdx,
              foundNewSent, srchCorpusSize, srchLens, analysed>>
grpVars == <<grpA, grpB, grpOut>>

\* ------------------------------------------------------------------ bounds

\* Distances are enumerated on a grid of 1/DistDen, up to MaxDistNum/DistDen.
DistDen == 100
MaxDistNum == 1400
\* The number of records the key-scan store holds.
MaxStored == 2
\* The number of recorded nextIfNotFound calls.
MaxCalls == 4
\* The longest path handed to ImportSentence, and the number of paths.
MaxPathLen == 3
MaxSents == 2
\* The largest number of entries of the maps handed to StoreData.
MaxSingles == 2
MaxPairs == 2
\* The largest number of 0x05 records of the queried store.
MaxPairRows == 3
\* binary places kept of a logarithm
Log2Places == 8
\* sentences of an import run
MaxRunSents == 2
\* result items of a query running next to another
MaxConcItems == 2
\* Register calls recorded
MaxRegs == 3
\* sentences of a vertical file, and the capacity the Searcher is built with
MaxVertSents == 3
MaxSentSize == 2

\* ----------------------------------------------------------------- helpers

Abs(x) == IF x < 0 THEN -x ELSE x

Min2(a, b) == IF a < b THEN a ELSE b

Max2(a, b) == IF a > b THEN a ELSE b

\* byte(x) of a non-negative integer
ToByte(x) == x % 256

\* A uint32 is a record of two 16-bit limbs, value = hi * 65536 + lo, so that
\* the whole 32-bit range is kept (TLC's integers are narrower).
U32(n) == [hi |-> n \div 65536, lo |-> n % 65536]

U32ToInt(v) == v.hi * 65536 + v.lo

U32Zero == [hi |-> 0, lo |-> 0]

U32Max == [hi |-> 65535, lo |-> 65535]

\* v + 1 modulo 2^32
U32Inc(v) ==
    IF v.lo = 65535
    THEN [hi |-> (v.hi + 1) % 65536, lo |-> 0]
    ELSE [hi |-> v.hi, lo |-> v.lo + 1]

\* v + w modulo 2^32
U32Add(v, w) ==
    [ hi |-> (v.hi + w.hi + ((v.lo + w.lo) \div 65536)) % 65536,
      lo |-> (v.lo + w.lo) % 65536 ]

\* whether v + w exceeds 2^32 - 1
U32AddWraps(v, w) == v.hi + w.hi + ((v.lo + w.lo) \div 65536) >= 65536

\* binary.LittleEndian.PutUint32
PutUint32(v) == << v.lo % 256, v.lo \div 256, v.hi % 256, v.hi \div 256 >>

\* binary.LittleEndian.Uint32
Uint32(b) == [hi |-> b[3] + 256 * b[4], lo |-> b[1] + 256 * b[2]]

IsPrefix(p, k) == Len(p) <= Len(k) /\ SubSeq(k, 1, Len(p)) = p

\* Byte-wise lexicographic order of two keys (the store's key order).
RECURSIVE KeyLess(_, _)
KeyLess(a, b) ==
    IF a = <<>> THEN b # <<>>
    ELSE IF b = <<>> THEN FALSE
    ELSE IF Head(a) # Head(b) THEN Head(a) < Head(b)
    ELSE KeyLess(Tail(a), Tail(b))

\* The keys of a set in the store's order.
RECURSIVE SortKeys(_)
SortKeys(S) ==
    IF S = {} THEN <<>>
    ELSE LET m == CHOOSE x \in S : \A y \in S \ {x} : KeyLess(x, y)
         IN  <<m>> \o SortKeys(S \ {m})

EmptyDB == [k \in {} |-> <<>>]

\* txn.Set
Put(store, k, v) == [x \in (DOMAIN store) \cup {k} |-> IF x = k THEN v ELSE store[x]]

\* An iterator with opts.Prefix: the keys it visits, in order.
PrefixScan(store, prefix) == SortKeys({k \in DOMAIN store : IsPrefix(prefix, k)})

\* -------------------------------------------------------- distance codec

\* math.Round of the rational num/den (den > 0): half away from zero.
RoundHalfAway(num, den) ==
    IF num >= 0 THEN (2 * num + den) \div (2 * den)
    ELSE -((2 * (-num) + den) \div (2 * den))

DecodeDistanceNoShift(encoded) ==
    IF encoded < 128 THEN -encoded ELSE encoded - 128

\* EncodeDistance(distance) for distance = num/den.
EncodeDistance(num, den) ==
    LET scaled == RoundHalfAway(10 * num, den)
    IN  IF scaled < 0
        THEN ToByte(-Max2(scaled, -127) - 1)
        ELSE ToByte(Min2(scaled, 127) + 128)

\* DecodeDistance(encoded), in tenths.
DecodeDistance(encoded) ==
    IF encoded < 128 THEN -(encoded + 1) ELSE encoded - 128

DistIdle == dpc = "off" /\ distNum = 0 /\ distByte = 0 /\ distOut = 0

DistInit ==
    /\ dpc = "in"
    /\ distNum \in -MaxDistNum .. MaxDistNum
    /\ distByte = 0
    /\ distOut = 0

EncodeStep ==
    /\ dpc = "in"
    /\ distByte' = EncodeDistance(distNum, DistDen)
    /\ dpc' = "enc"
    /\ UNCHANGED <<distNum, distOut>>

DecodeStep ==
    /\ dpc = "enc"
    /\ distOut' = DecodeDistance(distByte)
    /\ dpc' = "dec"
    /\ UNCHANGED <<distNum, distByte>>

\* ------------------------------------------------------ single-token keys

singleTokenPrefix == 4

TokenFreqKey(tokenID, pos, textType, deprel) ==
    <<singleTokenPrefix>> \o PutUint32(tokenID) \o <<pos, textType, deprel>>

TokenFreqSearchKeyFull(tokenID, pos, textType, deprel) ==
    <<singleTokenPrefix>> \o PutUint32(tokenID) \o <<pos, textType, deprel>>

TokenFreqSearchKey(tokenID, pos, textType, deprel) ==
    LET key == <<singleTokenPrefix>> \o PutUint32(tokenID)
    IN  IF pos > 0
        THEN IF textType > 0
             THEN IF deprel > 0
                  THEN key \o <<pos, textType, deprel>>
                  ELSE key \o <<pos, textType>>
             ELSE key \o <<pos>>
        ELSE key

\* DecodeTokenFreqKey, for the full-size keys the store holds.
DecodeTokenFreqKey(key) ==
    [ Token1ID |-> Uint32(SubSeq(key, 2, 5)),
      Pos1     |-> IF Len(key) >= 6 THEN key[6] ELSE 0,
      TextType |-> IF Len(key) >= 7 THEN key[7] ELSE 0,
      Deprel1  |-> IF Len(key) >= 8 THEN key[8] ELSE 0 ]

\* EncodeTokenValue(uint32(freq))
EncodeTokenValue(freq) == PutUint32(U32(freq))

DecodeTokenValue(data) == [Freq |-> U32ToInt(Uint32(data))]

\* DB.getRawTokenFreqTx: the records of the prefix scan, in key order.
getRawTokenFreqTx(store, tokenID, pos, textType, deprel) ==
    LET keys == PrefixScan(store, TokenFreqSearchKey(tokenID, pos, textType, deprel))
    IN  [ i \in 1 .. Len(keys) |->
            [ TokenID  |-> tokenID,
              Freq     |-> DecodeTokenValue(store[keys[i]]).Freq,
              PoS      |-> DecodeTokenFreqKey(keys[i]).Pos1,
              TextType |-> DecodeTokenFreqKey(keys[i]).TextType ] ]

\* The token ids, PoS, text type and deprel codes of the key-scan store.
KeyIds == {U32(1), U32(257), [hi |-> 1, lo |-> 1]}
KeyPos == {0, 1, 2}
KeyTT == {0, 1}
KeyDeprel == {0, 1}

NoQry == [tokenID |-> U32Zero, pos |-> 0, textType |-> 0, deprel |-> 0]

KeyIdle == kpc = "off" /\ qry = NoQry /\ scanKeys = {} /\ scanRes = <<>>

KeyInit == kpc = "fill" /\ qry = NoQry /\ scanKeys = {} /\ scanRes = <<>>

\* DB.StoreSingleTokenFreqTx on a record of the key universe.
KeyStore ==
    /\ kpc = "fill"
    /\ Cardinality(DOMAIN db) < MaxStored
    /\ \E id \in KeyIds, p \in KeyPos, t \in KeyTT, d \in KeyDeprel :
          db' = Put(db, TokenFreqKey(id, p, t, d), EncodeTokenValue(1))
    /\ UNCHANGED <<kpc, qry, scanKeys, scanRes>>

\* DB.getRawTokenFreqTx on the store.
KeyScan ==
    /\ kpc = "fill"
    /\ \E id \in KeyIds, p \in KeyPos, t \in KeyTT, d \in KeyDeprel :
          /\ qry' = [tokenID |-> id, pos |-> p, textType |-> t, deprel |-> d]
          /\ scanKeys' = {k \in DOMAIN db : IsPrefix(TokenFreqSearchKey(id, p, t, d), k)}
          /\ scanRes' = getRawTokenFreqTx(db, id, p, t, d)
    /\ kpc' = "scanned"
    /\ UNCHANGED db

\* ------------------------------------------------------------ id sequence

\* NewTokenIDSequence
NewTokenIDSequence == [value |-> U32Zero, cache |-> [k \in {} |-> U32Zero]]

\* tokenIDSequence.recall: a missing key reads as zero.
recall(tseq, lemmaHash) ==
    IF lemmaHash \in DOMAIN tseq.cache THEN tseq.cache[lemmaHash] ELSE U32Zero

nextUnchecked(tseq, lemmaHash) ==
    LET v == U32Inc(tseq.value)
    IN  [ panic |-> FALSE,
          seq   |-> [value |-> v, cache |-> Put(tseq.cache, lemmaHash, v)],
          id    |-> v ]

\* tokenIDSequence.next: [panic, seq (the sequence afterwards), id (returned)]
next(tseq, lemmaHash) ==
    LET v == U32Inc(tseq.value)
    IN  IF v = U32Zero
        THEN [ panic |-> TRUE,
               seq   |-> [value |-> v, cache |-> tseq.cache],
               id    |-> U32Zero ]
        ELSE [ panic |-> FALSE,
               seq   |-> [value |-> v, cache |-> Put(tseq.cache, lemmaHash, v)],
               id    |-> v ]

\* tokenIDSequence.nextIfNotFound: [panic, seq, id, found]
nextIfNotFound(tseq, lemmaHash) ==
    LET nextID == recall(tseq, lemmaHash)
    IN  IF nextID = U32Zero
        THEN LET r == next(tseq, lemmaHash)
             IN  [panic |-> r.panic, seq |-> r.seq, id |-> r.id, found |-> FALSE]
        ELSE [panic |-> FALSE, seq |-> tseq, id |-> nextID, found |-> TRUE]

\* The lemma keys whose calls are recorded: "a", "b", "ab".
SeqKeys == {<<97>>, <<98>>, <<97, 98>>}

\* A run of 2^32 - 3 calls for keys outside SeqKeys, each a new one.
BulkSize == [hi |-> 65535, lo |-> 65533]

SeqIdle == spc = "off" /\ seqCalls = <<>> /\ seqMints = U32Zero /\ seqPanic = FALSE

SeqInit == spc = "run" /\ seqCalls = <<>> /\ seqMints = U32Zero /\ seqPanic = FALSE

\* One nextIfNotFound call for a key of SeqKeys.
SeqCall ==
    /\ spc = "run"
    /\ ~seqPanic
    /\ Len(seqCalls) < MaxCalls
    /\ \E k \in SeqKeys :
          LET r == nextIfNotFound(tidSeq, k)
          IN  /\ tidSeq' = r.seq
              /\ seqPanic' = r.panic
              /\ seqMints' = IF r.panic \/ r.found THEN seqMints ELSE U32Inc(seqMints)
              /\ seqCalls' =
                    IF r.panic THEN seqCalls
                    ELSE Append(seqCalls,
                                [ key |-> k, id |-> r.id, found |-> r.found,
                                  nth |-> IF r.found THEN U32Zero ELSE U32Inc(seqMints) ])
    /\ UNCHANGED spc

\* BulkSize nextIfNotFound calls in a row, each for a new key outside SeqKeys:
\* every one mints, and the one that wraps the counter panics.
SeqBulk ==
    /\ spc = "run"
    /\ ~seqPanic
    /\ IF U32AddWraps(tidSeq.value, BulkSize)
       THEN /\ tidSeq' = [tidSeq EXCEPT !.value = U32Zero]
            /\ seqPanic' = TRUE
            /\ seqMints' = U32Max
       ELSE /\ tidSeq' = [tidSeq EXCEPT !.value = U32Add(tidSeq.value, BulkSize)]
            /\ seqPanic' = FALSE
            /\ seqMints' = U32Add(seqMints, BulkSize)
    /\ UNCHANGED <<spc, seqCalls>>

\* ------------------------------------------------------------- aggregator

\* One hexadecimal digit, as fmt's %x prints it.
HexDigit(d) == IF d < 10 THEN 48 + d ELSE 87 + d

\* fmt.Sprintf("%x", n)
RECURSIVE Hex(_)
Hex(n) == IF n < 16 THEN <<HexDigit(n)>> ELSE Hex(n \div 16) \o <<HexDigit(n % 16)>>

\* "|" and "-"
Bar == <<124>>
Dash == <<45>>

RECURSIVE GCD(_, _)
GCD(a, b) == IF b = 0 THEN a ELSE GCD(b, a % b)

\* The float64 value num/den (den > 0), in lowest terms; rounding error of the
\* floating-point division is not modelled.
Rat(num, den) ==
    LET g == GCD(Abs(num), den)
    IN  IF num = 0 THEN [num |-> 0, den |-> 1] ELSE [num |-> num \div g, den |-> den \div g]

\* UDPoS.IsValid
PoSIsValid(raw) == raw >= 1 /\ raw <= 16

\* TokenFreq.Key
TokenFreqGroupingKey(otf) ==
    IF PoSIsValid(otf.PoS)
    THEN Hex(otf.TextType) \o Bar \o otf.Lemma \o Bar \o Hex(otf.PoS) \o Bar \o Hex(otf.Deprel)
    ELSE Hex(otf.TextType) \o Bar \o otf.Lemma \o Bar \o Dash \o Bar \o Hex(otf.Deprel)

\* TokenFreq.LemmaKey
LemmaKey(otf) == otf.Lemma

\* TokenFreq.UpdateFreq has a value receiver: it adds to a copy, which is
\* dropped, and the caller's entry stays as it was.
UpdateFreq(otf, freq) == otf

\* The mean of the old mean and the new sample
UpdateFreqAndDistHalved(cf, freq, dist) ==
    [ cf EXCEPT
        !.AVGDist = Rat(cf.AVGDist.num + dist * cf.AVGDist.den, cf.AVGDist.den * 2),
        !.Freq = cf.Freq + freq ]

\* CollocFreq.UpdateFreqAndDist
UpdateFreqAndDist(cf, freq, dist) ==
    [ cf EXCEPT
        !.AVGDist = Rat(cf.Freq * cf.AVGDist.num + dist * cf.AVGDist.den,
                        cf.AVGDist.den * (cf.Freq + 1)),
        !.Freq = cf.Freq + freq ]

\* CollocFreq.Key
CollocFreqGroupingKey(cf) ==
    IF PoSIsValid(cf.PoS1) /\ PoSIsValid(cf.PoS2)
    THEN Hex(cf.TextType) \o Bar \o cf.Lemma1 \o Bar \o Hex(cf.PoS1) \o Bar \o Hex(cf.Deprel1)
            \o Bar \o cf.Lemma2 \o Bar \o Hex(cf.PoS2) \o Bar \o Hex(cf.Deprel2)
    ELSE Hex(cf.TextType) \o Bar \o cf.Lemma1 \o Bar \o Hex(cf.Deprel1)
            \o Bar \o cf.Lemma2 \o Bar \o Hex(cf.Deprel2)

\* CollocFreq.Lemma1Key, CollocFreq.Lemma2Key
Lemma1Key(cf) == cf.Lemma1
Lemma2Key(cf) == cf.Lemma2

\* A token as the aggregator reads it: the lemma and the codes that
\* ImportUDPoS, ImportUDDeprel and TTMapping give its attributes.
\* freqs.newCollocFreq
newCollocFreq(token1, token2, freq, distance) ==
    [ Lemma1   |-> token1.Lemma,
      PoS1     |-> token1.PoS,
      Deprel1  |-> token1.Deprel,
      Lemma2   |-> token2.Lemma,
      PoS2     |-> token2.PoS,
      Deprel2  |-> token2.Deprel,
      TextType |-> token1.TextType,
      Freq     |-> freq,
      AVGDist  |-> Rat(distance, 1) ]

\* NewFreqs
NewFreqs == [Single |-> [k \in {} |-> 0], Double |-> [k \in {} |-> 0]]

\* freqs.AddLemma
AddLemma(f, token, freq) ==
    LET newEntry == [ Lemma |-> token.Lemma, PoS |-> token.PoS, Deprel |-> token.Deprel,
                      Freq |-> freq, TextType |-> token.TextType ]
        key  == TokenFreqGroupingKey(newEntry)
        curr == IF key \in DOMAIN f.Single THEN f.Single[key] ELSE newEntry
        upd  == UpdateFreq(curr, freq)
    IN  [f EXCEPT !.Single = Put(f.Single, TokenFreqGroupingKey(upd), upd)]

\* freqs.AddCooc
AddCooc(f, token1, token2, freq, distance) ==
    LET newEntry == newCollocFreq(token1, token2, 0, 0)
        entryKey == CollocFreqGroupingKey(newEntry)
        curr == IF entryKey \in DOMAIN f.Double THEN f.Double[entryKey] ELSE newEntry
    IN  [f EXCEPT !.Double = Put(f.Double, entryKey, UpdateFreqAndDist(curr, freq, distance))]

\* The last position (counted from 1) the inner loop of ImportSentence visits
\* for the token at position i: j < min(i+2, len(sent)), counted from 0.
WindowLast(i, n) == Min2(i + 1, n)

\* The inner loop of freqs.ImportSentence from position j on; st is
\* [f, calls], calls being the AddCooc calls made so far.
RECURSIVE ImportInner(_, _, _, _)
ImportInner(st, sent, i, j) ==
    IF j > WindowLast(i, Len(sent)) THEN st
    ELSE IF i = j THEN ImportInner(st, sent, i, j + 1)
    ELSE ImportInner(
            [ f     |-> AddCooc(st.f, sent[i], sent[j], 1, i - j),
              calls |-> Append(st.calls, [i |-> i, j |-> j, freq |-> 1, dist |-> i - j]) ],
            sent, i, j + 1)

\* The outer loop of freqs.ImportSentence from position i on.
RECURSIVE ImportOuter(_, _, _)
ImportOuter(st, sent, i) ==
    IF i > Len(sent) THEN st
    ELSE ImportOuter(
            ImportInner([f |-> AddLemma(st.f, sent[i], 1), calls |-> st.calls],
                        sent, i, Max2(1, i - 2)),
            sent, i + 1)

\* freqs.ImportSentence: [f (the aggregator afterwards), calls]
ImportSentence(f, sent) == ImportOuter([f |-> f, calls |-> <<>>], sent, 1)

\* The tokens of the imported paths: a/NOUN, b/NOUN, a/PART, a/unknown.
ImpTokens ==
    { [Lemma |-> <<97>>, PoS |-> 8,  Deprel |-> 35, TextType |-> 1],
      [Lemma |-> <<98>>, PoS |-> 8,  Deprel |-> 35, TextType |-> 1],
      [Lemma |-> <<97>>, PoS |-> 17, Deprel |-> 35, TextType |-> 1],
      [Lemma |-> <<97>>, PoS |-> 0,  Deprel |-> 35, TextType |-> 1] }

ImpPaths == UNION {[1 .. n -> ImpTokens] : n \in 0 .. MaxPathLen}

ImpIdle == ipc = "off" /\ freqs = NewFreqs /\ sents = <<>> /\ coocCalls = <<>>

ImpInit == ipc = "run" /\ freqs = NewFreqs /\ sents = <<>> /\ coocCalls = <<>>

\* freqs.ImportSentence on one more path.
ImportSentenceStep ==
    /\ ipc = "run"
    /\ Len(sents) < MaxSents
    /\ \E sent \in ImpPaths :
          LET r == ImportSentence(freqs, sent)
          IN  /\ freqs' = r.f
              /\ coocCalls' = r.calls
              /\ sents' = Append(sents, sent)
    /\ UNCHANGED ipc

\* ------------------------------------------------------------------ writer

lemmaToIDPrefix == 2
idToLemmaPrefix == 3
pairTokenPrefix == 5

\* EncodeLemmaKey
EncodeLemmaKey(lemma) == <<lemmaToIDPrefix>> \o lemma.Lemma

\* TokenIDToBytes
TokenIDToBytes(tokenID) == PutUint32(tokenID)

\* TokenIDToRevIndexKey
TokenIDToRevIndexKey(tokenID) == <<idToLemmaPrefix>> \o PutUint32(tokenID)

\* CollFreqKey
CollFreqKey(token1ID, pos1, textType, deprel1, token2ID, pos2, deprel2) ==
    <<pairTokenPrefix>> \o PutUint32(token1ID) \o <<pos1, textType, deprel1>>
        \o PutUint32(token2ID) \o <<pos2, deprel2>>

\* DecodeCollFreqKey
DecodeCollFreqKey(key) ==
    [ Token1ID |-> Uint32(SubSeq(key, 2, 5)),
      Pos1     |-> key[6],
      TextType |-> key[7],
      Deprel1  |-> key[8],
      Token2ID |-> Uint32(SubSeq(key, 9, 12)),
      Pos2     |-> key[13],
      Deprel2  |-> key[14] ]

\* AllCollFreqsOfToken
AllCollFreqsOfToken(tokenID) == <<pairTokenPrefix>> \o PutUint32(tokenID)

\* EncodeCollocValue; avgDist is the rational [num, den]
EncodeCollocValue(freq, avgDist) ==
    PutUint32(U32(freq)) \o <<EncodeDistance(avgDist.num, avgDist.den)>>

\* DecodeCollocValue; Dist in tenths
DecodeCollocValue(data) ==
    [Freq |-> U32ToInt(Uint32(SubSeq(data, 1, 4))), Dist |-> DecodeDistance(data[5])]

\* Whether DecodeCollocValue panics on data
DecodeCollocValuePanics(data) == Len(data) # 5

\* unicode.IsSpace on a single-byte character
IsSpace(c) == c \in {9, 10, 11, 12, 13, 32}

\* strings.TrimSpace
RECURSIVE TrimSpace(_)
TrimSpace(str) ==
    IF str = <<>> THEN str
    ELSE IF IsSpace(Head(str)) THEN TrimSpace(Tail(str))
    ELSE IF IsSpace(str[Len(str)]) THEN TrimSpace(SubSeq(str, 1, Len(str) - 1))
    ELSE str

\* DB.GetLemmaID: [ok, id]
GetLemmaID(store, lemmaEntry) ==
    IF EncodeLemmaKey(lemmaEntry) \in DOMAIN store
    THEN [ok |-> TRUE, id |-> Uint32(store[EncodeLemmaKey(lemmaEntry)])]
    ELSE [ok |-> FALSE, id |-> U32Zero]

\* DB.GetLemmaByID: [ok, lemma]
GetLemmaByID(store, tokenID) ==
    IF TokenIDToRevIndexKey(tokenID) \in DOMAIN store
    THEN [ok |-> TRUE, lemma |-> TrimSpace(store[TokenIDToRevIndexKey(tokenID)])]
    ELSE [ok |-> FALSE, lemma |-> <<>>]

\* DB.StoreSingleTokenFreqTx
StoreSingleTokenFreqTx(store, tokenID, freq) ==
    Put(store, TokenFreqKey(tokenID, freq.PoS, freq.TextType, freq.Deprel),
        EncodeTokenValue(freq.Freq))

\* DB.StorePairTokenFreqTx
StorePairTokenFreqTx(store, token1ID, token2ID, collFreq) ==
    Put(store,
        CollFreqKey(token1ID, collFreq.PoS1, collFreq.TextType, collFreq.Deprel1,
                    token2ID, collFreq.PoS2, collFreq.Deprel2),
        EncodeCollocValue(collFreq.Freq, collFreq.AVGDist))

\* DB.StoreLemmaTx
StoreLemmaTx(store, lemma, tokenID) ==
    Put(Put(store, EncodeLemmaKey(lemma), TokenIDToBytes(tokenID)),
        TokenIDToRevIndexKey(tokenID), lemma.Lemma)

PairAcceptedAlways(pairFreq, minFreq) == TRUE

\* The filter of the third loop of StoreData: an entry with
\* Freq < minPairFreq is skipped.
PairAccepted(pairFreq, minFreq) == ~(pairFreq.Freq < minFreq)

\* The orders in which a range loop may visit the keys of a map.
Orders(m) ==
    { o \in [1 .. Cardinality(DOMAIN m) -> DOMAIN m] :
        \A i, j \in DOMAIN o : i # j => o[i] # o[j] }

\* The loops of StoreData; st is [db, seq, panic], order the order in which
\* the range loop visits the map, i the position reached.
RECURSIVE StoreLemmas(_, _, _, _)
StoreLemmas(st, m, order, i) ==
    IF i > Len(order) \/ st.panic THEN st
    ELSE LET lemmaEntry == m[order[i]]
             r == nextIfNotFound(st.seq, LemmaKey(lemmaEntry))
         IN  StoreLemmas(
                [ db    |-> IF r.found \/ r.panic THEN st.db
                            ELSE StoreLemmaTx(st.db, lemmaEntry, r.id),
                  seq   |-> r.seq,
                  panic |-> r.panic ],
                m, order, i + 1)

RECURSIVE StoreSingles(_, _, _, _)
StoreSingles(st, m, order, i) ==
    IF i > Len(order) \/ st.panic THEN st
    ELSE LET lemmaEntry == m[order[i]]
         IN  StoreSingles(
                [st EXCEPT !.db = StoreSingleTokenFreqTx(
                                    st.db, recall(st.seq, LemmaKey(lemmaEntry)), lemmaEntry)],
                m, order, i + 1)

RECURSIVE StorePairs(_, _, _, _, _)
StorePairs(st, m, minFreq, order, i) ==
    IF i > Len(order) \/ st.panic THEN st
    ELSE LET pairFreq == m[order[i]]
         IN  StorePairs(
                IF PairAccepted(pairFreq, minFreq)
                THEN [st EXCEPT !.db = StorePairTokenFreqTx(
                                          st.db,
                                          recall(st.seq, Lemma1Key(pairFreq)),
                                          recall(st.seq, Lemma2Key(pairFreq)),
                                          pairFreq)]
                ELSE st,
                m, minFreq, order, i + 1)

\* DB.StoreData, the three range loops visiting the maps in the orders
\* o1, o2 and o3: [db, seq, panic]
StoreData(store, tseq, singles, pairs, minFreq, o1, o2, o3) ==
    StorePairs(
        StoreSingles(
            StoreLemmas([db |-> store, seq |-> tseq, panic |-> FALSE], singles, o1, 1),
            singles, o2, 1),
        pairs, minFreq, o3, 1)

\* The entries the maps handed to StoreData are built from. Lemmas: "a",
\* "b", " a"; PoS NOUN or unknown; deprels nsubj, obj.
SingleEntries ==
    { [Lemma |-> <<97>>,     PoS |-> 8, Deprel |-> 35, Freq |-> 2, TextType |-> 1],
      [Lemma |-> <<98>>,     PoS |-> 8, Deprel |-> 39, Freq |-> 1, TextType |-> 1],
      [Lemma |-> <<32, 97>>, PoS |-> 8, Deprel |-> 35, Freq |-> 1, TextType |-> 1],
      [Lemma |-> <<97>>,     PoS |-> 0, Deprel |-> 35, Freq |-> 3, TextType |-> 1] }

PairEntry(l1, p1, l2, p2, freq, num, den) ==
    [ Lemma1 |-> l1, PoS1 |-> p1, Deprel1 |-> 35, Lemma2 |-> l2, PoS2 |-> p2,
      Deprel2 |-> 39, TextType |-> 1, Freq |-> freq, AVGDist |-> Rat(num, den) ]

PairEntries ==
    { PairEntry(<<97>>, 8, <<98>>, 8, 3, 3, 2),
      PairEntry(<<97>>, 8, <<98>>, 8, 1, -1, 1),
      PairEntry(<<98>>, 8, <<97>>, 8, 2, 1, 3),
      PairEntry(<<97>>, 0, <<98>>, 8, 3, 13, 1),
      PairEntry(<<97>>, 8, <<97>>, 8, 2, -2, 1),
      PairEntry(<<32, 97>>, 8, <<98>>, 8, 1, -127, 10) }

MinFreqs == {1, 2, 4}

\* Maps of at most n entries under arbitrary keys ("1", "2", ...), as a
\* caller of the exported StoreData may build them.
AnyMaps(U, n) ==
    UNION { [K -> U] : K \in SUBSET { <<48 + i>> : i \in 1 .. n } }

\* Maps of at most n entries, each under its own grouping key, as AddLemma
\* builds them.
SingleMaps(n) ==
    { [k \in {TokenFreqGroupingKey(e) : e \in S} |->
            CHOOSE e \in S : TokenFreqGroupingKey(e) = k] :
        S \in { S \in SUBSET SingleEntries :
                  /\ Cardinality(S) <= n
                  /\ \A e1, e2 \in S :
                        TokenFreqGroupingKey(e1) = TokenFreqGroupingKey(e2) => e1 = e2 } }

\* The same for AddCooc.
PairMaps(n) ==
    { [k \in {CollocFreqGroupingKey(e) : e \in S} |->
            CHOOSE e \in S : CollocFreqGroupingKey(e) = k] :
        S \in { S \in SUBSET PairEntries :
                  /\ Cardinality(S) <= n
                  /\ \A e1, e2 \in S :
                        CollocFreqGroupingKey(e1) = CollocFreqGroupingKey(e2) => e1 = e2 } }

\* ImportSentence calls AddLemma for each token of a path and AddCooc only
\* for tokens of that path: both lemmas of every pair have a single entry.
LemmasCovered(singles, pairs) ==
    \A k \in DOMAIN pairs :
        /\ \E s \in DOMAIN singles : LemmaKey(singles[s]) = Lemma1Key(pairs[k])
        /\ \E s \in DOMAIN singles : LemmaKey(singles[s]) = Lemma2Key(pairs[k])

WrIdle ==
    /\ wpc = "off"
    /\ singleFreqs = NewFreqs.Single
    /\ pairFreqs = NewFreqs.Double
    /\ minPairFreq = 0
    /\ wrFirst = EmptyDB

\* StoreData called with maps of any shape.
WrInitAny ==
    /\ wpc = "input"
    /\ singleFreqs \in AnyMaps(SingleEntries, MaxSingles)
    /\ pairFreqs \in AnyMaps(PairEntries, MaxPairs)
    /\ minPairFreq \in MinFreqs
    /\ wrFirst = EmptyDB

\* StoreData called with maps of the aggregator's shape.
WrInitKeyed ==
    /\ wpc = "input"
    /\ singleFreqs \in SingleMaps(MaxSingles)
    /\ pairFreqs \in PairMaps(MaxPairs)
    /\ LemmasCovered(singleFreqs, pairFreqs)
    /\ minPairFreq \in MinFreqs
    /\ wrFirst = EmptyDB

\* freqs.StoreToDb on the cleared store: a new id sequence, then StoreData.
StoreToDbStep ==
    /\ wpc = "input"
    /\ \E o1 \in Orders(singleFreqs), o2 \in Orders(singleFreqs), o3 \in Orders(pairFreqs) :
          LET r == StoreData(db, NewTokenIDSequence, singleFreqs, pairFreqs,
                             minPairFreq, o1, o2, o3)
          IN  /\ db' = r.db
              /\ tidSeq' = r.seq
              /\ wpc' = IF r.panic THEN "panic" ELSE "stored"
    /\ UNCHANGED <<singleFreqs, pairFreqs, minPairFreq, wrFirst>>

\* The write phase once more on the same maps: db.Clear, then
\* freqs.StoreToDb with a new id sequence.
StoreToDbAgainStep ==
    /\ wpc = "stored"
    /\ \E o1 \in Orders(singleFreqs), o2 \in Orders(singleFreqs), o3 \in Orders(pairFreqs) :
          LET r == StoreData(EmptyDB, NewTokenIDSequence, singleFreqs, pairFreqs,
                             minPairFreq, o1, o2, o3)
          IN  /\ db' = r.db
              /\ tidSeq' = r.seq
              /\ wpc' = IF r.panic THEN "panic" ELSE "again"
    /\ wrFirst' = db
    /\ UNCHANGED <<singleFreqs, pairFreqs, minPairFreq>>

\* ------------------------------------------------------------------- query

\* The 0x05 key the reader scans: the direction byte follows the family
\* byte and the pair has one 16-bit deprel.
CollFreqKeyDir(dir, token1ID, pos1, textType, deprel, token2ID, pos2) ==
    <<pairTokenPrefix, dir>> \o PutUint32(token1ID)
        \o <<pos1, textType, deprel % 256, deprel \div 256>>
        \o PutUint32(token2ID) \o <<pos2>>

DecodeCollFreqKeyDir(key) ==
    [ Token1ID |-> Uint32(SubSeq(key, 3, 6)),
      Pos1     |-> key[7],
      TextType |-> key[8],
      Deprel   |-> key[9] + 256 * key[10],
      Token2ID |-> Uint32(SubSeq(key, 11, 14)),
      Pos2     |-> key[15] ]

\* AllCollFreqsOfToken(directionFlag, tokenID)
AllCollFreqsOfTokenDir(directionFlag, tokenID) ==
    <<pairTokenPrefix, IF directionFlag THEN 1 ELSE 0>> \o PutUint32(tokenID)

\* EncodeLemmaPrefixKey
EncodeLemmaPrefixKey(lemmaPrefix) == <<lemmaToIDPrefix>> \o lemmaPrefix

\* DB.GetLemmaIDsByPrefix: the matching lemmas in key order
RECURSIVE LemmasWithID(_, _)
LemmasWithID(store, keys) ==
    IF keys = <<>> THEN <<>>
    ELSE << [ Value   |-> TrimSpace(Tail(Head(keys))),
              TokenID |-> Uint32(store[Head(keys)]) ] >>
            \o LemmasWithID(store, Tail(keys))

GetLemmaIDsByPrefix(store, lemmaPrefix) ==
    LemmasWithID(store, PrefixScan(store, EncodeLemmaPrefixKey(lemmaPrefix)))

\* RawTokenFreq.GroupingKeyBinary
TokenGroupingKeyBinary(rtf) == PutUint32(rtf.TokenID) \o <<rtf.PoS, rtf.TextType>>

\* RawCollocFreq.GroupingKeyBinary
CollGroupingKeyBinary(rcf) ==
    PutUint32(rcf.Token1ID) \o <<rcf.PoS1, rcf.Deprel % 256, rcf.Deprel \div 256>>
        \o PutUint32(rcf.Token2ID) \o <<rcf.PoS2, rcf.TextType, 0, 0, 0>>

\* RawCollocFreq.GroupingKeyLemma1Binary
GroupingKeyLemma1Binary(rcf) == PutUint32(rcf.Token1ID) \o <<rcf.PoS1, rcf.TextType>>

\* RawCollocFreq.GroupingKeyLemma2Binary
GroupingKeyLemma2Binary(rcf) == PutUint32(rcf.Token2ID) \o <<rcf.PoS2, rcf.TextType>>

\* newTokenFreqGrouping
newTokenFreqGrouping ==
    [groupByPos |-> FALSE, groupByTT |-> FALSE, data |-> [k \in {} |-> 0]]

\* What tokenFreqGrouping.add makes of a row before it takes its key (a
\* RawTokenFreq has no deprel field to clear).
TokenFreqRetained(rg, f) ==
    [f EXCEPT !.TextType = IF rg.groupByTT THEN @ ELSE 0,
              !.PoS = IF rg.groupByPos THEN @ ELSE 0]

\* tokenFreqGrouping.add
tokenFreqGroupingAdd(rg, f) ==
    LET g   == TokenFreqRetained(rg, f)
        key == TokenGroupingKeyBinary(g)
    IN  [rg EXCEPT !.data =
            Put(rg.data, key,
                IF key \in DOMAIN rg.data
                THEN [rg.data[key] EXCEPT !.Freq = @ + g.Freq]
                ELSE g)]

\* tokenFreqGrouping.get: the zero value for a missing key
tokenFreqGroupingGet(rg, key) ==
    IF key \in DOMAIN rg.data THEN rg.data[key]
    ELSE [TokenID |-> U32Zero, PoS |-> 0, Freq |-> 0, TextType |-> 0]

\* newCollFreqGrouping
newCollFreqGrouping ==
    [ groupByPos1 |-> FALSE, groupByPos2 |-> FALSE, groupByDeprel |-> FALSE,
      groupByTT |-> FALSE, data |-> [k \in {} |-> 0] ]

\* What collFreqGrouping.add makes of a row before it takes its key.
CollFreqRetained(rg, f) ==
    [f EXCEPT !.TextType = IF rg.groupByTT THEN @ ELSE 0,
              !.PoS1 = IF rg.groupByPos1 THEN @ ELSE 0,
              !.PoS2 = IF rg.groupByPos2 THEN @ ELSE 0,
              !.Deprel = IF rg.groupByDeprel THEN @ ELSE 0]

\* An add that keeps the fields of the last row of a group
collFreqGroupingAddLast(rg, f) ==
    LET g   == CollFreqRetained(rg, f)
        key == CollGroupingKeyBinary(g)
    IN  [rg EXCEPT !.data =
            Put(rg.data, key,
                IF key \in DOMAIN rg.data
                THEN [g EXCEPT !.Freq = rg.data[key].Freq + g.Freq]
                ELSE g)]

\* collFreqGrouping.add
collFreqGroupingAdd(rg, f) ==
    LET g   == CollFreqRetained(rg, f)
        key == CollGroupingKeyBinary(g)
    IN  [rg EXCEPT !.data =
            Put(rg.data, key,
                IF key \in DOMAIN rg.data
                THEN [rg.data[key] EXCEPT !.Freq = @ + g.Freq]
                ELSE g)]

GroupersNoPos2(pos, textType, collocateGroupByPos, groupByDeprel, collocateGroupByTextType) ==
    [ sumFreqs1 |-> [newTokenFreqGrouping EXCEPT
                        !.groupByPos = pos # <<>>,
                        !.groupByTT = textType # <<>> \/ collocateGroupByTextType],
      sumFreqs2 |-> [newTokenFreqGrouping EXCEPT
                        !.groupByTT = textType # <<>> \/ collocateGroupByTextType],
      sumCollFreqs |-> [newCollFreqGrouping EXCEPT
                        !.groupByPos1 = pos # <<>>,
                        !.groupByPos2 = collocateGroupByPos,
                        !.groupByDeprel = groupByDeprel,
                        !.groupByTT = textType # <<>> \/ collocateGroupByTextType] ]

\* The three groupers as CalculateMeasures sets them up before the scan.
Groupers(pos, textType, collocateGroupByPos, groupByDeprel, collocateGroupByTextType) ==
    [ sumFreqs1 |-> [newTokenFreqGrouping EXCEPT
                        !.groupByPos = pos # <<>>,
                        !.groupByTT = textType # <<>> \/ collocateGroupByTextType],
      sumFreqs2 |-> [newTokenFreqGrouping EXCEPT
                        !.groupByPos = collocateGroupByPos,
                        !.groupByTT = textType # <<>> \/ collocateGroupByTextType],
      sumCollFreqs |-> [newCollFreqGrouping EXCEPT
                        !.groupByPos1 = pos # <<>>,
                        !.groupByPos2 = collocateGroupByPos,
                        !.groupByDeprel = groupByDeprel,
                        !.groupByTT = textType # <<>> \/ collocateGroupByTextType] ]

\* UDPoSMapping[pos] for the names used here; 0 for any other string
UDPoSMapping(pos) ==
    IF pos = <<78, 79, 85, 78>> THEN 8 ELSE IF pos = <<65, 68, 74>> THEN 1 ELSE 0

\* PreconfTextTypeMapping.ReadableToRaw with the mapping {"t1": 1, "t2": 2}
ReadableToRaw(val) ==
    IF val = <<116, 49>> THEN 1 ELSE IF val = <<116, 50>> THEN 2 ELSE 0

\* SortingMeasure.Validate
Validate(m) == m \in {"ldice", "tscore", "lmi", "rrf"}

\* createPredefinedSearchFilter: the name of the function it returns
createPredefinedSearchFilter(srch) ==
    CASE srch = "modifiers-of" -> "modifiers-of"
      [] srch = "nouns-modified-by" -> "nouns-modified-by"
      [] srch = "verbs-object" -> "verbs-object"
      [] srch = "verbs-subject" -> "verbs-subject"
      [] OTHER -> "nil"

\* customFilter == nil || customFilter(pos1, deprel, pos2, textType, dist),
\* for the functions createPredefinedSearchFilter returns
FilterAccepts(customFilter, pos1, deprel, pos2, textType, dist) ==
    CASE customFilter = "nil" -> TRUE
      [] customFilter = "modifiers-of" -> FALSE
      [] customFilter = "nouns-modified-by" -> FALSE
      [] customFilter = "verbs-object" -> FALSE
      [] customFilter = "verbs-subject" -> FALSE

\* headDepSearches
HeadDepSearches(isHead) ==
    IF isHead = "nil" THEN <<TRUE, FALSE>> ELSE <<isHead = "true">>

\* The loop adding the F(x) rows to sumFreqs1. acc is [g, results, f1, f2]:
\* the groupers, the results slice and the two logs of added rows.
RECURSIVE AddFreqs1(_, _)
AddFreqs1(acc, rows) ==
    IF rows = <<>> THEN acc
    ELSE AddFreqs1(
            [acc EXCEPT
                !.g.sumFreqs1 = tokenFreqGroupingAdd(@, Head(rows)),
                !.f1 = @ \cup {[ row |-> Head(rows),
                                 key |-> TokenGroupingKeyBinary(
                                            TokenFreqRetained(acc.g.sumFreqs1, Head(rows))) ]}],
            Tail(rows))

\* The loop adding the F(y) rows to sumFreqs2.
RECURSIVE AddFreqs2(_, _)
AddFreqs2(acc, rows) ==
    IF rows = <<>> THEN acc
    ELSE AddFreqs2(
            [acc EXCEPT
                !.g.sumFreqs2 = tokenFreqGroupingAdd(@, Head(rows)),
                !.f2 = @ \cup {[ row |-> Head(rows),
                                 key |-> TokenGroupingKeyBinary(
                                            TokenFreqRetained(acc.g.sumFreqs2, Head(rows))) ]}],
            Tail(rows))

\* The iterator loop over the 0x05 records of one direction. Distances are
\* in tenths. The walk-through cache returns what the store returns, as
\* the store does not change during the call. A panic of DecodeCollocValue
\* ends the call: acc.panic is set and nothing more is done.
RECURSIVE ScanPairs(_, _, _, _)
ScanPairs(acc, store, keys, a) ==
    IF keys = <<>> \/ acc.panic THEN acc
    ELSE IF ~(ReadableToRaw(a.textType) > 0
                /\ DecodeCollFreqKeyDir(Head(keys)).TextType # ReadableToRaw(a.textType))
            /\ DecodeCollocValuePanics(store[Head(keys)])
    THEN [acc EXCEPT !.panic = TRUE]
    ELSE LET key       == Head(keys)
             decKey    == DecodeCollFreqKeyDir(key)
             collValue == DecodeCollocValue(store[key])
             ttID      == ReadableToRaw(a.textType)
             skip ==
                \/ ttID > 0 /\ decKey.TextType # ttID
                \/ ~FilterAccepts(a.customFilter, decKey.Pos1, decKey.Deprel,
                                  decKey.Pos2, decKey.TextType, collValue.Dist)
                \/ a.maxAvgCollocateDist > 0 /\ Abs(collValue.Dist) > a.maxAvgCollocateDist
             f ==
                [ Token1ID |-> decKey.Token1ID,
                  PoS1     |-> decKey.Pos1,
                  Deprel   |-> decKey.Deprel,
                  Token2ID |-> decKey.Token2ID,
                  PoS2     |-> decKey.Pos2,
                  Freq     |-> collValue.Freq,
                  AVGDist  |-> collValue.Dist,
                  TextType |-> decKey.TextType ]
             added ==
                [acc EXCEPT
                    !.g.sumCollFreqs = collFreqGroupingAdd(@, f),
                    !.fxy = Append(@,
                        [ row |-> f,
                          key |-> CollGroupingKeyBinary(
                                    CollFreqRetained(acc.g.sumCollFreqs, f)) ])]
         IN  ScanPairs(
                IF skip THEN acc
                ELSE AddFreqs2(added,
                        getRawTokenFreqTx(store, decKey.Token2ID, decKey.Pos2, ttID, 0)),
                store, Tail(keys), a)

RECURSIVE ScanDirections(_, _, _, _, _)
ScanDirections(acc, store, lemmaMatch, dirs, a) ==
    IF dirs = <<>> \/ acc.panic THEN acc
    ELSE ScanDirections(
            ScanPairs(acc, store,
                      PrefixScan(store, AllCollFreqsOfTokenDir(Head(dirs), lemmaMatch.TokenID)),
                      a),
            store, lemmaMatch, Tail(dirs), a)

\* Metadata.CorpusSize of the queried dataset: the number of tokens of the
\* imported sentences.
CorpusSize == 23

\* The floor of 2^Log2Places * log2(m / 16384) for 16384 <= m < 32768, one
\* binary place per squaring of the mantissa.
RECURSIVE Log2Bits(_, _)
Log2Bits(m, k) ==
    IF k = 0 THEN 0
    ELSE LET sq == (m * m) \div 16384
         IN  IF sq >= 32768
             THEN 2 ^ (k - 1) + Log2Bits(sq \div 2, k - 1)
             ELSE Log2Bits(sq, k - 1)

\* math.Log2(num / den) for num, den > 0, cut to Log2Places binary places
\* and counted in units of 2^-Log2Places; e is the exponent taken out so far.
RECURSIVE Log2Norm(_, _, _)
Log2Norm(num, den, e) ==
    IF num >= 2 * den THEN Log2Norm(num, 2 * den, e + 1)
    ELSE IF num < den THEN Log2Norm(2 * num, den, e - 1)
    ELSE e * 2 ^ Log2Places + Log2Bits((num * 16384) \div den, Log2Places)

Log2(num, den) == Log2Norm(num, den, 0)

\* tscore of CalculateMeasures, (Fxy - Fx*Fy/N) / sqrt(Fxy), kept as the
\* pair [num, f] that stands for num / (N * sqrt(f))
TScore(fxy, fx, fy, n) == [num |-> fxy * n - fx * fy, f |-> fxy]

\* results[i].TScore > results[j].TScore, decided on the squares
TScoreGreater(x, y) ==
    IF x.TScore.num >= 0
    THEN IF y.TScore.num < 0 THEN TRUE
         ELSE x.TScore.num * x.TScore.num * y.TScore.f
                > y.TScore.num * y.TScore.num * x.TScore.f
    ELSE IF y.TScore.num >= 0 THEN FALSE
         ELSE x.TScore.num * x.TScore.num * y.TScore.f
                < y.TScore.num * y.TScore.num * x.TScore.f

\* lmi of CalculateMeasures, Fxy * log2(N*Fxy / (Fx*Fy)); +Inf when the
\* product Fx*Fy is zero
LMI(fxy, fx, fy, n) ==
    IF fx * fy = 0 THEN [inf |-> TRUE, v |-> 0]
    ELSE [inf |-> FALSE, v |-> fxy * Log2(n * fxy, fx * fy)]

\* results[i].LMI > results[j].LMI
LMIGreater(x, y) ==
    IF x.LMI.inf THEN ~y.LMI.inf
    ELSE IF y.LMI.inf THEN FALSE
    ELSE x.LMI.v > y.LMI.v

\* x * log(x) for x > 0, in units of ln(2) * 2^-Log2Places
XLog(x) == x * Log2(x, 1)

\* LLScore. b and c are uint32 differences, d is an int64 one. The result
\* is NaN when one of the terms is 0 * log(0) or the logarithm of a negative
\* number; "wrap" when fx - fxy or fy - fxy wraps around, whose value near
\* 2^32 is not computed here; otherwise the number v in units of
\* 2 * ln(2) * 2^-Log2Places.
LLScore(fxy, fx, fy, n) ==
    LET a == fxy
        b == fx - fxy
        c == fy - fxy
        d == n - fx - fy + fxy
    IN  IF b = 0 \/ c = 0 \/ d <= 0 THEN [kind |-> "nan", v |-> 0]
        ELSE IF b < 0 \/ c < 0 THEN [kind |-> "wrap", v |-> 0]
        ELSE [ kind |-> "num",
               v    |-> XLog(a) + XLog(b) + XLog(c) + XLog(d)
                        - XLog(a + b) - XLog(a + c) - XLog(b + d) - XLog(c + d)
                        + XLog(a + b + c + d) ]

\* results[i].LogLikelihood > results[j].LogLikelihood, for two numbers
LLGreater(x, y) == x.LogLikelihood.v > y.LogLikelihood.v

\* The loop over sumCollFreqs that appends to results, run for the variant
\* lemmaMatch; keys are the grouping keys still to visit. An item carries
\* the frequencies the scores are computed from, the fraction under the
\* logarithm of Log-Dice as [num, den], and the grouping key it came from.
RECURSIVE AppendResults(_, _, _, _, _)
AppendResults(acc, store, lemmaMatch, keys, a) ==
    IF keys = <<>> \/ acc.panic THEN acc
    ELSE LET val    == acc.g.sumCollFreqs.data[Head(keys)]
             lemma2 == GetLemmaByID(store, val.Token2ID).lemma
             f1     == tokenFreqGroupingGet(acc.g.sumFreqs1, GroupingKeyLemma1Binary(val))
             f2     == tokenFreqGroupingGet(acc.g.sumFreqs2, GroupingKeyLemma2Binary(val))
         IN  AppendResults(
                [acc EXCEPT !.results = Append(@,
                    [ Lemma      |-> [Value |-> lemmaMatch.Value, PoS |-> a.pos],
                      Deprel     |-> val.Deprel,
                      Collocate  |-> [Value |-> lemma2, PoS |-> val.PoS2],
                      TextType   |-> val.TextType,
                      MutualDist |-> val.AVGDist,
                      Freq       |-> val.Freq,
                      Freq1      |-> f1.Freq,
                      Freq2      |-> f2.Freq,
                      LogDice    |-> [num |-> 2 * val.Freq, den |-> f1.Freq + f2.Freq],
                      TScore     |-> TScore(val.Freq, f1.Freq, f2.Freq, CorpusSize),
                      LMI        |-> LMI(val.Freq, f1.Freq, f2.Freq, CorpusSize),
                      LogLikelihood |-> LLScore(val.Freq, f1.Freq, f2.Freq, CorpusSize),
                      RRFScore   |-> 0,
                      group      |-> Head(keys) ])],
                store, lemmaMatch, Tail(keys), a)

\* The loop over the variants GetLemmaIDsByPrefix returned.
RECURSIVE ScanVariants(_, _, _, _)
ScanVariants(acc, store, variants, a) ==
    IF variants = <<>> \/ acc.panic THEN acc
    ELSE LET lemmaMatch == Head(variants)
             scanned ==
                ScanDirections(
                    AddFreqs1(acc,
                        getRawTokenFreqTx(store, lemmaMatch.TokenID, UDPoSMapping(a.pos),
                                          ReadableToRaw(a.textType), 0)),
                    store, lemmaMatch, HeadDepSearches(a.isHead), a)
         IN  ScanVariants(
                IF ~a.lemmaIsPrefix /\ lemmaMatch.Value # a.lemma THEN acc
                ELSE AppendResults(scanned, store, lemmaMatch,
                                   SortKeys(DOMAIN scanned.g.sumCollFreqs.data), a),
                store, Tail(variants), a)

\* The orders sort.Slice, which is not stable, may leave the items rest in:
\* the sequences of indices in which no item precedes one that the less
\* function puts before it; before holds the pairs <<i, j>> with less(i, j).
RECURSIVE Arrangements(_, _)
Arrangements(rest, before) ==
    IF rest = {} THEN {<<>>}
    ELSE UNION { { <<i>> \o t : t \in Arrangements(rest \ {i}, before) } :
                 i \in { i \in rest : \A j \in rest : <<j, i>> \notin before } }

Permuted(items, p) == [i \in 1 .. Len(items) |-> items[p[i]]]

\* results[i].LogDice > results[j].LogDice; a zero denominator is +Inf
LogDiceGreater(x, y) ==
    IF x.LogDice.den = 0 THEN y.LogDice.den # 0
    ELSE IF y.LogDice.den = 0 THEN FALSE
    ELSE x.LogDice.num * y.LogDice.den > y.LogDice.num * x.LogDice.den

LLIsNumber(x) == x.LogLikelihood.kind = "num"

RRFGreater(x, y) == x.RRFScore > y.RRFScore

\* The less function sort.Slice is given for the sorting measure key
Less(key, x, y) ==
    CASE key = "ldice" -> LogDiceGreater(x, y)
      [] key = "tscore" -> TScoreGreater(x, y)
      [] key = "lmi" -> LMIGreater(x, y)
      [] key = "ll" -> LLGreater(x, y)
      [] key = "rrf" -> RRFGreater(x, y)

\* sort.Slice(items, less) for the measure key: the orders p it may leave,
\* p[i] the index of the item put at place i. Where some key is not a number
\* every comparison with it is false and any order may result.
SortSlice(items, key) ==
    Arrangements(1 .. Len(items),
        IF key = "ll" => \A i \in 1 .. Len(items) : LLIsNumber(items[i])
        THEN { q \in (1 .. Len(items)) \X (1 .. Len(items)) :
                 Less(key, items[q[1]], items[q[2]]) }
        ELSE {})

\* results sorted the wrong way round
SortedByLogDiceAscending(results) ==
    { Permuted(results, p) :
        p \in Arrangements(1 .. Len(results),
                { q \in (1 .. Len(results)) \X (1 .. Len(results)) :
                    LogDiceGreater(results[q[2]], results[q[1]]) }) }

\* What sort.Slice, which is not stable, may make of results under sortBy
\* "ldice": every arrangement in which no item precedes a greater one.
SortedByLogDice(results) ==
    { Permuted(results, p) : p \in SortSlice(results, "ldice") }

SortedByTScore(results) ==
    { Permuted(results, p) : p \in SortSlice(results, "tscore") }

SortedByLMI(results) ==
    { Permuted(results, p) : p \in SortSlice(results, "lmi") }

SortedByLL(results) ==
    { Permuted(results, p) : p \in SortSlice(results, "ll") }

rrfConstantD == 60

\* 1.0 / float64(rrfConstantD + i) as a multiple of 1 / lcm(60, .., 65),
\* which is exact for the ranks 0 .. 5
RRFWeight(i) == (64 * 9 * 5 * 7 * 13 * 31 * 61) \div (rrfConstantD + i)

\* (Collocation).Hash: the formatted string, SHA-1 taken as injective. The
\* PoS of the collocate and the deprel are not part of it.
Hash(col) ==
    col.Lemma.Value \o Bar \o col.Lemma.PoS \o Bar
        \o (IF col.MutualDist > 0 THEN <<116, 114, 117, 101>>
                                  ELSE <<102, 97, 108, 115, 101>>)
        \o Bar \o col.Collocate.Value \o Bar \o <<col.TextType>>

\* What the loop over the ranks adds to scores[h] for the places i.. of list
RECURSIVE RankScore(_, _, _, _)
RankScore(items, list, h, i) ==
    IF i > Len(list) THEN 0
    ELSE (IF Hash(items[list[i]]) = h THEN RRFWeight(i - 1) ELSE 0)
            + RankScore(items, list, h, i + 1)

\* items after the loop that sets RRFScore, before the last sort.Slice
RRFScored(items, lists) ==
    [ i \in 1 .. Len(items) |->
        [items[i] EXCEPT !.RRFScore =
            RankScore(items, lists[1], Hash(items[i]), 1)
            + RankScore(items, lists[2], Hash(items[i]), 1)
            + RankScore(items, lists[3], Hash(items[i]), 1)
            + RankScore(items, lists[4], Hash(items[i]), 1)] ]

\* SortByRRF: every run [lists, scored, out] the four rankings and the
\* last sort allow; scored is items with RRFScore set, out is the slice as
\* SortByRRF leaves it.
RRFRun(items, lists) ==
    LET scored == RRFScored(items, lists)
    IN  { [lists |-> lists, scored |-> scored, out |-> Permuted(scored, p)] :
            p \in SortSlice(scored, "rrf") }

SortByRRF(items) ==
    LET list1 == SortSlice(items, "ldice")
        list2 == SortSlice(items, "lmi")
        list3 == SortSlice(items, "tscore")
        list4 == SortSlice(items, "ll")
    IN  UNION { RRFRun(items, <<p1, p2, p3, p4>>) :
                  p1 \in list1, p2 \in list2, p3 \in list3, p4 \in list4 }

\* The switch on sortBy of CalculateMeasures: the runs [lists, scored, out]
SortResults(results, sortBy) ==
    IF sortBy = "rrf" THEN SortByRRF(results)
    ELSE { [lists |-> <<>>, scored |-> results, out |-> sorted] :
            sorted \in CASE sortBy = "tscore" -> SortedByTScore(results)
                         [] sortBy = "ldice" -> SortedByLogDice(results)
                         [] sortBy = "lmi" -> SortedByLMI(results)
                         [] sortBy = "ll" -> SortedByLL(results)
                         [] OTHER -> {results} }

\* DB.CalculateMeasures up to the sort: [panic, acc]
CalculateMeasures(store, a) ==
    IF a.limit < 0 \/ ~Validate(a.sortBy)
    THEN [ panic |-> TRUE,
           acc   |-> [ g |-> Groupers(<<>>, <<>>, FALSE, FALSE, FALSE),
                       results |-> <<>>, f1 |-> {}, f2 |-> {}, fxy |-> <<>>,
                       panic |-> TRUE ] ]
    ELSE LET acc == ScanVariants(
                        [ g |-> Groupers(a.pos, a.textType, a.collocateGroupByPos,
                                         a.groupByDeprel, a.collocateGroupByTextType),
                          results |-> <<>>, f1 |-> {}, f2 |-> {}, fxy |-> <<>>,
                          panic |-> FALSE ],
                        store, GetLemmaIDsByPrefix(store, a.lemma), a)
         IN  [panic |-> acc.panic, acc |-> acc]

\* The queried store: lemmas "d" (id 1), "do" (id 2) and "c" (id 3) with
\* their single-token rows, and at most MaxPairRows of the pair rows below.
RECURSIVE PutAll(_, _)
PutAll(store, kvs) ==
    IF kvs = <<>> THEN store
    ELSE PutAll(Put(store, Head(kvs)[1], Head(kvs)[2]), Tail(kvs))

LemmaD == [Lemma |-> <<100>>]
LemmaDo == [Lemma |-> <<100, 111>>]
LemmaC == [Lemma |-> <<99>>]

BaseStore ==
    PutAll(
        StoreLemmaTx(StoreLemmaTx(StoreLemmaTx(EmptyDB, LemmaD, U32(1)), LemmaDo, U32(2)),
                     LemmaC, U32(3)),
        << <<TokenFreqKey(U32(1), 8, 1, 35), EncodeTokenValue(5)>>,
           <<TokenFreqKey(U32(1), 1, 1, 6), EncodeTokenValue(2)>>,
           <<TokenFreqKey(U32(2), 8, 1, 35), EncodeTokenValue(3)>>,
           <<TokenFreqKey(U32(3), 8, 1, 39), EncodeTokenValue(4)>>,
           <<TokenFreqKey(U32(3), 15, 2, 46), EncodeTokenValue(6)>>,
           <<TokenFreqKey(U32(1), 8, 2, 34), EncodeTokenValue(2)>>,
           <<TokenFreqKey(U32(3), 15, 1, 46), EncodeTokenValue(1)>> >>)

PairRow(dir, id1, pos1, tt, deprel, id2, pos2, freq, tenths) ==
    << CollFreqKeyDir(dir, U32(id1), pos1, tt, deprel, U32(id2), pos2),
       EncodeCollocValue(freq, Rat(tenths, 10)) >>

PairRows ==
    { PairRow(1, 1, 8, 1, 35, 3, 8, 3, 10),
      PairRow(0, 1, 8, 1, 39, 3, 8, 2, -20),
      PairRow(1, 2, 8, 1, 35, 3, 8, 2, 10),
      PairRow(1, 1, 1, 1, 6, 3, 15, 1, 15),
      PairRow(1, 1, 8, 2, 34, 3, 15, 2, 10),
      PairRow(0, 2, 8, 1, 39, 1, 8, 1, -10) }

\* A pair record whose value is one byte short
CorruptRow ==
    << CollFreqKeyDir(1, U32(1), 8, 1, 35, U32(3), 1), <<2, 0, 0, 0>> >>

\* The stores queried: the sound pair rows, or the corrupt one with at most
\* one sound row
QueryStores ==
    { [k \in (DOMAIN BaseStore) \cup {r[1] : r \in S} |->
            IF k \in DOMAIN BaseStore THEN BaseStore[k]
            ELSE (CHOOSE r \in S : r[1] = k)[2]] :
        S \in {S \in SUBSET PairRows : Cardinality(S) <= MaxPairRows}
               \cup {{CorruptRow} \cup S : S \in {{}} \cup {{r} : r \in PairRows}} }

NoArgs ==
    [ lemma |-> <<>>, pos |-> <<>>, textType |-> <<>>, lemmaIsPrefix |-> FALSE,
      isHead |-> "nil", maxAvgCollocateDist |-> 0, limit |-> 0, sortBy |-> "ldice",
      collocateGroupByPos |-> FALSE, groupByDeprel |-> FALSE,
      collocateGroupByTextType |-> FALSE, customFilter |-> "nil" ]

\* The arguments CalculateMeasures is called with; maxAvgCollocateDist in
\* tenths. The groupings are tried with every sort key and without row
\* filters, the row filters and the prefix search with every grouping left
\* off, a negative limit with every sort key.
CmArgSet ==
    { a \in [ lemma : {<<100>>},
              pos : {<<>>, <<78, 79, 85, 78>>},
              textType : {<<>>, <<116, 49>>},
              lemmaIsPrefix : BOOLEAN,
              isHead : {"nil", "true", "false"},
              maxAvgCollocateDist : {0, 15},
              limit : {-1, 1, 10},
              sortBy : {"ldice", "tscore", "lmi", "ll", "rrf", "mi"},
              collocateGroupByPos : BOOLEAN,
              groupByDeprel : BOOLEAN,
              collocateGroupByTextType : BOOLEAN,
              customFilter : {"nil", "nouns-modified-by"} ] :
        LET rowFilters == a.isHead # "nil" \/ a.maxAvgCollocateDist # 0
                            \/ a.customFilter # "nil"
            groupings  == a.collocateGroupByPos \/ a.groupByDeprel
                            \/ a.collocateGroupByTextType
        IN  \/ ~rowFilters /\ ~a.lemmaIsPrefix /\ a.limit >= 0
            \/ ~groupings /\ a.sortBy = "ldice" /\ a.limit = 10
            \/ ~rowFilters /\ ~groupings /\ ~a.lemmaIsPrefix /\ a.limit < 0 }

CmIdle ==
    /\ cpc = "off"
    /\ cmOpts = [via |-> "", options |-> <<>>]
    /\ cmLookup = [lemma |-> <<>>, id |-> U32Zero, err |-> FALSE]
    /\ cmArgs = NoArgs
    /\ cmOut = <<>>
    /\ cmResults = <<>>
    /\ cmRanks = <<>>
    /\ cmGroupers = Groupers(<<>>, <<>>, FALSE, FALSE, FALSE)
    /\ cmLog = [f1 |-> {}, f2 |-> {}]
    /\ cmScan = <<>>

CmInit ==
    /\ cpc = "ready"
    /\ cmOpts = [via |-> "", options |-> <<>>]
    /\ cmLookup = [lemma |-> <<>>, id |-> U32Zero, err |-> FALSE]
    /\ cmArgs = NoArgs
    /\ cmOut = <<>>
    /\ cmResults = <<>>
    /\ cmRanks = <<>>
    /\ cmGroupers = Groupers(<<>>, <<>>, FALSE, FALSE, FALSE)
    /\ cmLog = [f1 |-> {}, f2 |-> {}]
    /\ cmScan = <<>>

\* The zero value of CalculationOptions
NoOptions ==
    [ PrefixSearch |-> FALSE, PoS |-> <<>>, TextType |-> <<>>, Limit |-> 0, SortBy |-> "",
      CollocateGroupByPos |-> FALSE, GroupByDeprel |-> FALSE,
      CollocateGroupByTextType |-> FALSE, MaxAvgCollocateDist |-> 0,
      LemmasAsHead |-> "nil", PredefinedSearch |-> "" ]

\* The option functions WithPoS, WithLimit, WithSortBy, WithPredefinedSearch
\* applied to opts; o is [with, arg]
ApplyOption(opts, o) ==
    CASE o.with = "WithPoS" -> [opts EXCEPT !.PoS = o.arg]
      [] o.with = "WithLimit" -> [opts EXCEPT !.Limit = o.arg]
      [] o.with = "WithSortBy" -> [opts EXCEPT !.SortBy = o.arg]
      [] o.with = "WithPredefinedSearch" ->
            [opts EXCEPT !.PredefinedSearch = o.arg,
                         !.GroupByDeprel = TRUE,
                         !.CollocateGroupByPos = TRUE,
                         !.LemmasAsHead = IF o.arg = "modifiers-of" THEN "true" ELSE "false"]

\* for _, opt := range options { opt(&opts) }
RECURSIVE ApplyOptions(_, _)
ApplyOptions(opts, options) ==
    IF options = <<>> THEN opts
    ELSE ApplyOptions(ApplyOption(opts, Head(options)), Tail(options))

\* The arguments Calculator.GetCollocations hands to CalculateMeasures
GetCollocationsArgs(lemma, options) ==
    LET opts == ApplyOptions(NoOptions, options)
    IN  [ lemma |-> lemma, pos |-> opts.PoS, textType |-> opts.TextType,
          lemmaIsPrefix |-> opts.PrefixSearch, isHead |-> opts.LemmasAsHead,
          maxAvgCollocateDist |-> opts.MaxAvgCollocateDist, limit |-> opts.Limit,
          sortBy |-> opts.SortBy, collocateGroupByPos |-> opts.CollocateGroupByPos,
          groupByDeprel |-> opts.GroupByDeprel,
          collocateGroupByTextType |-> opts.CollocateGroupByTextType,
          customFilter |-> createPredefinedSearchFilter(opts.PredefinedSearch) ]

\* The option lists GetCollocations is called with: at most one option of
\* a kind, in the order pos, limit, sort key, predefined search.
OptionLists ==
    { p \o l \o m \o f :
        p \in {<<>>, <<[with |-> "WithPoS", arg |-> <<78, 79, 85, 78>>]>>},
        l \in {<<>>} \cup {<<[with |-> "WithLimit", arg |-> n]>> : n \in {1, 10}},
        m \in {<<>>} \cup {<<[with |-> "WithSortBy", arg |-> k]>> : k \in {"ldice", "rrf"}},
        f \in {<<>>} \cup {<<[with |-> "WithPredefinedSearch", arg |-> k]>> :
                    k \in {"modifiers-of", "nouns-modified-by",
                            "verbs-object", "verbs-subject"}} }

\* DB.CalculateMeasures called with the arguments a: the scan, the sort and
\* the cut to limit.
CallCalculateMeasures(a) ==
          LET r == CalculateMeasures(db, a)
          IN  /\ cmArgs' = a
              /\ cmGroupers' = r.acc.g
              /\ cmLog' = [f1 |-> r.acc.f1, f2 |-> r.acc.f2]
              /\ cmScan' = r.acc.fxy
              /\ IF r.panic
                 THEN /\ cpc' = "panic"
                      /\ cmOut' = <<>>
                      /\ cmResults' = r.acc.results
                      /\ cmRanks' = <<>>
                 ELSE /\ cpc' = "done"
                      /\ \E run \in SortResults(r.acc.results, a.sortBy) :
                            /\ cmResults' = run.scored
                            /\ cmRanks' = run.lists
                            /\ cmOut' = IF Len(run.out) > a.limit
                                        THEN SubSeq(run.out, 1, a.limit)
                                        ELSE run.out

\* DB.CalculateMeasures
CalculateMeasuresStep ==
    /\ cpc = "ready"
    /\ \E a \in CmArgSet : CallCalculateMeasures(a)
    /\ cmOpts' = [via |-> "CalculateMeasures", options |-> <<>>]
    /\ UNCHANGED cmLookup
    /\ UNCHANGED db

\* Calculator.GetCollocations
GetCollocationsStep ==
    /\ cpc = "ready"
    /\ \E options \in OptionLists :
          /\ CallCalculateMeasures(GetCollocationsArgs(<<100>>, options))
          /\ cmOpts' = [via |-> "GetCollocations", options |-> options]
    /\ UNCHANGED <<db, cmLookup>>

\* DB.GetLemmaID, for a lemma of the index or the lemma "x", which is not
\* in it
GetLemmaIDStep ==
    /\ cpc = "ready"
    /\ \E lemma \in {<<100>>, <<99>>, <<120>>} :
          LET r == GetLemmaID(db, [Lemma |-> lemma])
          IN  cmLookup' = [lemma |-> lemma, id |-> r.id, err |-> ~r.ok]
    /\ cpc' = "lookup"
    /\ UNCHANGED <<db, cmOpts, cmArgs, cmOut, cmResults, cmRanks, cmGroupers, cmLog, cmScan>>

\* ---------------------------------------------------------- the import run

\* The attribute values of the imported sentences, as byte strings:
\* "ADP", "VERB", "PUNCT"; "acl", "case", "obl", "obl:", "obl:arg", "punct",
\* "root".
StrADP == <<65, 68, 80>>
StrNOUN == <<78, 79, 85, 78>>
StrVERB == <<86, 69, 82, 66>>
StrPUNCT == <<80, 85, 78, 67, 84>>
StrAcl == <<97, 99, 108>>
StrCase == <<99, 97, 115, 101>>
StrObl == <<111, 98, 108>>
StrOblColon == <<111, 98, 108, 58>>
StrOblArg == <<111, 98, 108, 58, 97, 114, 103>>
StrPunct == <<112, 117, 110, 99, 116>>
StrRoot == <<114, 111, 111, 116>>

\* ImportUDPoS for the upper-case names used here (strings.ToUpper leaves
\* them as they are): ADP, NOUN, PUNCT, VERB; 0 for any other string.
ImportUDPoS(v) ==
    CASE v = StrADP -> 2
      [] v = StrNOUN -> 8
      [] v = StrPUNCT -> 12
      [] v = StrVERB -> 15
      [] OTHER -> 0

\* UDDeprelMapping as the program starts: the entries of the table for the
\* labels used here, and maxValue 0x100.
UDDeprelMapping ==
    [ items |-> [ l \in {StrAcl, StrCase, StrObl, StrOblArg, StrPunct, StrRoot} |->
                    CASE l = StrAcl -> 1
                      [] l = StrCase -> 10
                      [] l = StrObl -> 40
                      [] l = StrOblArg -> 41
                      [] l = StrPunct -> 44
                      [] l = StrRoot -> 46 ],
      maxValue |-> 256 ]

\* ImportUDDeprel with the mapping udm, for lower-case labels: [Readable, Raw]
ImportUDDeprel(udm, v) ==
    IF v \in DOMAIN udm.items
    THEN [Readable |-> v, Raw |-> udm.items[v]]
    ELSE [Readable |-> v, Raw |-> 0]

\* DeprelMapping.Register: [udm, panic]
Register(udm, key) ==
    IF key \in DOMAIN udm.items
    THEN [udm |-> udm, panic |-> TRUE]
    ELSE [ udm   |-> [ items    |-> Put(udm.items, key, udm.maxValue),
                       maxValue |-> (udm.maxValue + 1) % 65536 ],
           panic |-> FALSE ]

\* isBlocklistedRel
isBlocklistedRel(rel) ==
    \/ rel = <<112, 117, 110, 99, 116>> \/ rel = <<99, 99>> \/ IsPrefix(<<100, 101, 116>>, rel) \/ IsPrefix(<<97, 117, 120>>, rel)
    \/ rel = <<99, 111, 112>> \/ rel = <<109, 97, 114, 107>> \/ IsPrefix(<<101, 120, 112, 108>>, rel) \/ rel = <<100, 105, 115, 99, 111, 117, 114, 115, 101>>
    \/ rel = <<103, 111, 101, 115, 119, 105, 116, 104>> \/ rel = <<114, 101, 112, 97, 114, 97, 110, 100, 117, 109>>
    \/ rel = <<111, 114, 112, 104, 97, 110>> \/ rel = <<108, 105, 115, 116>>
    \/ rel = <<118, 111, 99, 97, 116, 105, 118, 101>> \/ rel = <<100, 101, 112>>

\* A sentence is a sequence of tokens [Lemma, PoS, Parent, Deprel]; Parent
\* is the value of the parent attribute, the offset of the parent token
\* (0 for the root). Only single-valued parents inside the sentence are
\* modelled.
\* parentMap[i] of findPathsToRoot; 0 stands for the invalid node (-1)
ParentOf(sent, i) == IF sent[i].Parent # 0 THEN i + sent[i].Parent ELSE 0

\* allToks.Sub(parents) of findPathsToRoot: the tokens no token points to
Leaves(sent) == (1 .. Len(sent)) \ { i + sent[i].Parent : i \in 1 .. Len(sent) }

\* The walk of findPathsToRoot from currNode towards the root; st is
\* [sent (syntSent), coll (deprelCollector), path, visited], path holding
\* the positions of the tokens appended.
RECURSIVE WalkToRoot(_, _)
WalkToRoot(st, currNode) ==
    IF currNode = 0 \/ currNode \in st.visited THEN st
    ELSE LET syntTok == st.sent[currNode]
             parentNode == ParentOf(st.sent, currNode)
             seen == [st EXCEPT !.visited = @ \cup {currNode}]
         IN  IF isBlocklistedRel(syntTok.Deprel) THEN WalkToRoot(seen, parentNode)
             ELSE IF parentNode # 0 /\ syntTok.PoS = StrADP
             THEN IF st.sent[parentNode].Deprel = StrObl
                  THEN WalkToRoot(
                          [seen EXCEPT !.sent[parentNode].Deprel = StrOblColon \o syntTok.Lemma,
                                       !.coll = @ \cup {StrOblColon \o syntTok.Lemma}],
                          parentNode)
                  ELSE WalkToRoot(seen, parentNode)
             ELSE WalkToRoot([seen EXCEPT !.path = Append(@, currNode)], parentNode)

\* The loop of findPathsToRoot over the leaves, visited in the order given;
\* st is [sent, coll, branches].
RECURSIVE WalkLeaves(_, _, _)
WalkLeaves(st, order, i) ==
    IF i > Len(order) THEN st
    ELSE LET w == WalkToRoot([sent |-> st.sent, coll |-> st.coll, path |-> <<>>,
                              visited |-> {}], order[i])
         IN  WalkLeaves([sent |-> w.sent, coll |-> w.coll,
                         branches |-> Append(st.branches, w.path)], order, i + 1)

\* The orders in which the iteration of a set may visit its members.
SetOrders(S) ==
    { o \in [1 .. Cardinality(S) -> S] : \A i, j \in DOMAIN o : i # j => o[i] # o[j] }

\* findPathsToRoot, the leaves visited in the order given: [branches, coll].
\* The branches hold pointers to the tokens of syntSent, so each shows the
\* attributes as they are when the function returns.
findPathsToRoot(sent, deprelCollector, order) ==
    LET r == WalkLeaves([sent |-> sent, coll |-> deprelCollector, branches |-> <<>>], order, 1)
    IN  [ branches |-> [ b \in DOMAIN r.branches |->
                            [ k \in DOMAIN r.branches[b] |-> r.sent[r.branches[b][k]] ] ],
          coll |-> r.coll ]

\* A token of a path as freqs.AddLemma and freqs.newCollocFreq read it with
\* the deprel mapping udm; no text type attribute is configured (code 0).
ReadToken(udm, tok) ==
    [ Lemma |-> tok.Lemma, PoS |-> ImportUDPoS(tok.PoS),
      Deprel |-> ImportUDDeprel(udm, tok.Deprel).Raw, TextType |-> 0 ]

\* The loop of analyzeLastSent over the branches: ImportTreePath on each.
RECURSIVE ImportBranches(_, _, _, _)
ImportBranches(f, udm, branches, i) ==
    IF i > Len(branches) THEN f
    ELSE ImportBranches(
            ImportSentence(f, [k \in DOMAIN branches[i] |-> ReadToken(udm, branches[i][k])]).f,
            udm, branches, i + 1)

\* The labels ImportUDDeprel was given in that loop, each with its lemma
\* and the code returned.
EncodedIn(udm, branches) ==
    UNION { { [ Lemma |-> branches[b][k].Lemma, Readable |-> branches[b][k].Deprel,
                Raw |-> ImportUDDeprel(udm, branches[b][k].Deprel).Raw ] :
              k \in DOMAIN branches[b] } : b \in DOMAIN branches }

RunToken(lemma, pos, parent, deprel) ==
    [Lemma |-> lemma, PoS |-> pos, Parent |-> parent, Deprel |-> deprel]

\* The sentences of the imported files: "to a v", "in a v", "a v",
\* "to a in v" (both prepositions under a), "a v ." with a and v ("go")
\* being a noun with deprel obl and the root verb.
RunSentences ==
    LET to == <<116, 111>>
        inn == <<105, 110>>
        a  == <<97>>
        v  == <<118>>
    IN  { << RunToken(to, StrADP, 1, StrCase), RunToken(a, StrNOUN, 1, StrObl),
             RunToken(v, StrVERB, 0, StrRoot) >>,
          << RunToken(inn, StrADP, 1, StrCase), RunToken(a, StrNOUN, 1, StrObl),
             RunToken(v, StrVERB, 0, StrRoot) >>,
          << RunToken(a, StrNOUN, 1, StrObl), RunToken(v, StrVERB, 0, StrRoot) >>,
          << RunToken(to, StrADP, 1, StrCase), RunToken(a, StrNOUN, 2, StrObl),
             RunToken(inn, StrADP, -1, StrCase), RunToken(v, StrVERB, 0, StrRoot) >>,
          << RunToken(a, StrNOUN, 1, StrObl), RunToken(v, StrVERB, 0, StrRoot),
             RunToken(<<46>>, StrPUNCT, -1, StrPunct) >> }

NoMetadata == [stored |-> FALSE, CorpusSize |-> 0, DeprelMap |-> [l \in {} |-> 0]]

RunIdle ==
    /\ rpc = "off" /\ udDeprel = UDDeprelMapping /\ extendedDeprels = {}
    /\ corpusSize = 0 /\ runEncoded = {} /\ metadata = NoMetadata /\ runSents = <<>>

\* The metadata record of a dataset imported earlier from an empty corpus
OldMetadata == [stored |-> TRUE, CorpusSize |-> 0, DeprelMap |-> UDDeprelMapping.items]

\* OpenDB: readMetadata fails when the store has no metadata record.
OpenDB(md) == IF md.stored THEN "ok" ELSE "error"

\* runCommand after OpenDBIgnoreMetadata: the store is new, or holds the
\* dataset of an earlier import.
RunInit ==
    /\ rpc = "parse" /\ udDeprel = UDDeprelMapping /\ extendedDeprels = {}
    /\ corpusSize = 0 /\ runEncoded = {} /\ runSents = <<>>
    /\ metadata \in {NoMetadata, OldMetadata}

\* Searcher.ProcStruct at the end of a sentence: analyzeLastSent.
AnalyzeLastSentStep ==
    /\ rpc = "parse"
    /\ Len(runSents) < MaxRunSents
    /\ \E sent \in RunSentences :
       \E order \in SetOrders(Leaves(sent)) :
          LET r == findPathsToRoot(sent, extendedDeprels, order)
          IN  /\ corpusSize' = corpusSize + Len(sent)
              /\ extendedDeprels' = r.coll
              /\ freqs' = ImportBranches(freqs, udDeprel, r.branches, 1)
              /\ runEncoded' = runEncoded \cup EncodedIn(udDeprel, r.branches)
              /\ runSents' = Append(runSents, sent)
    /\ UNCHANGED <<rpc, udDeprel, metadata, db, tidSeq, ipc, sents, coocCalls>>

\* runCommand after the last file: db.Clear; when DropAll fails, the error is
\* printed and the run goes on with the store as it is.
RunClearStep ==
    /\ rpc = "parse"
    /\ \E failed \in BOOLEAN :
          /\ db' = IF failed THEN db ELSE EmptyDB
          /\ metadata' = IF failed THEN metadata ELSE NoMetadata
    /\ rpc' = "cleared"
    /\ UNCHANGED <<udDeprel, extendedDeprels, corpusSize, runEncoded, runSents, tidSeq, impVars>>

\* runCommand: freqColl.StoreToDb.
RunStoreToDbStep ==
    /\ rpc = "cleared"
    /\ \E o1 \in Orders(freqs.Single), o2 \in Orders(freqs.Single), o3 \in Orders(freqs.Double),
          minFreq \in MinFreqs :
          LET r == StoreData(db, NewTokenIDSequence, freqs.Single, freqs.Double,
                             minFreq, o1, o2, o3)
          IN  /\ db' = r.db
              /\ tidSeq' = r.seq
              /\ rpc' = IF r.panic THEN "panic" ELSE "stored"
    /\ UNCHANGED <<udDeprel, extendedDeprels, corpusSize, runEncoded, metadata, runSents, impVars>>

\* The loop of runCommand over proc.CollectedDeprels(): [udm, panic]
RECURSIVE RegisterAll(_, _, _)
RegisterAll(st, order, i) ==
    IF i > Len(order) \/ st.panic THEN st
    ELSE RegisterAll(Register(st.udm, order[i]), order, i + 1)

\* runCommand: the collected labels are registered, in the order ToSlice
\* gives them.
RunRegisterStep ==
    /\ rpc = "stored"
    /\ \E order \in SetOrders(extendedDeprels) :
          LET r == RegisterAll([udm |-> udDeprel, panic |-> FALSE], order, 1)
          IN  /\ udDeprel' = r.udm
              /\ rpc' = IF r.panic THEN "panic" ELSE "registered"
    /\ UNCHANGED <<extendedDeprels, corpusSize, runEncoded, metadata, runSents, db, tidSeq, impVars>>

\* runCommand: metadata.DeprelMap = UDDeprelMapping.AsMap(), db.StoreMetadata.
RunStoreMetadataStep ==
    /\ rpc = "registered"
    /\ metadata' = [stored |-> TRUE, CorpusSize |-> corpusSize, DeprelMap |-> udDeprel.items]
    /\ rpc' = "done"
    /\ UNCHANGED <<udDeprel, extendedDeprels, corpusSize, runEncoded, runSents, db, tidSeq, impVars>>

\* ------------------------------------------------------ concurrent queries

\* The queries running on one opened DB
Queries == {1, 2}

\* DeprelMappingFromMap(src).revCache
NewRevCache == [c \in {} |-> <<>>]

\* The loop of GetRev over udm.items: the labels whose code is val
LabelsOf(udm, val) == { k \in DOMAIN udm.items : udm.items[k] = val }

\* The codes val.Deprel of the groups scored: 0 where the deprel is not
\* retained, obl, root.
ConcCodes == {0, 40, 46}

ConcIdle ==
    /\ qst = [q \in Queries |-> [pc |-> "off", i |-> 0]]
    /\ qDeprels = [q \in Queries |-> <<>>]
    /\ qOut = [q \in Queries |-> <<>>]
    /\ revCache = NewRevCache /\ mapWriting = {} /\ accesses = {} /\ fatal = FALSE

\* Two CalculateMeasures calls that have finished their scans and are about
\* to build their result items.
ConcInit ==
    /\ qDeprels \in [Queries -> UNION {[1 .. n -> ConcCodes] : n \in 0 .. MaxConcItems}]
    /\ qst = [q \in Queries |-> [pc |-> IF qDeprels[q] = <<>> THEN "done" ELSE "lookup", i |-> 1]]
    /\ qOut = [q \in Queries |-> <<>>]
    /\ revCache = NewRevCache /\ mapWriting = {} /\ accesses = {} /\ fatal = FALSE

\* GetRev has returned label to query q: the item is appended and the loop
\* over sumCollFreqs goes on.
Returned(q, label) ==
    /\ qOut' = [qOut EXCEPT ![q] = Append(@, label)]
    /\ qst' = [qst EXCEPT ![q] = [pc |-> IF @.i = Len(qDeprels[q]) THEN "done" ELSE "lookup",
                                  i  |-> @.i + 1]]

\* The runtime finds a map access next to a map write of another goroutine
\* ("concurrent map read and map write", "concurrent map writes") and stops
\* the process; the check is made on a best effort.
Fatal(q) ==
    /\ mapWriting \ {q} # {}
    /\ fatal' = TRUE
    /\ UNCHANGED <<qst, qOut, revCache, mapWriting>>

\* GetRev: v, ok := udm.revCache[val], and the loop over udm.items on a miss.
\* A read next to an assignment of another query is a data race: it may see
\* the entry being assigned or miss it.
GetRevLookup(q) ==
    /\ ~fatal /\ qst[q].pc = "lookup"
    /\ accesses' = accesses \cup {[q |-> q, kind |-> "r"]}
    /\ LET val == qDeprels[q][qst[q].i]
           pending == { o \in mapWriting \ {q} : qDeprels[o][qst[o].i] = val }
       IN  \/ Fatal(q)
           \/ /\ val \in DOMAIN revCache \/ pending # {}
              /\ Returned(q, CHOOSE k \in LabelsOf(udDeprel, val) : TRUE)
              /\ UNCHANGED <<revCache, mapWriting, fatal>>
           \/ /\ val \notin DOMAIN revCache
              /\ IF LabelsOf(udDeprel, val) = {}
                 THEN Returned(q, <<>>)
                 ELSE /\ qst' = [qst EXCEPT ![q].pc = "assign"]
                      /\ UNCHANGED qOut
              /\ UNCHANGED <<revCache, mapWriting, fatal>>
    /\ UNCHANGED <<qDeprels, udDeprel>>

\* GetRev: udm.revCache[val] = k begins (revCache is never nil here).
GetRevAssign(q) ==
    /\ ~fatal /\ qst[q].pc = "assign"
    /\ accesses' = accesses \cup {[q |-> q, kind |-> "w"]}
    /\ \/ Fatal(q)
       \/ /\ mapWriting' = mapWriting \cup {q}
          /\ qst' = [qst EXCEPT ![q].pc = "assigning"]
          /\ UNCHANGED <<qOut, revCache, fatal>>
    /\ UNCHANGED <<qDeprels, udDeprel>>

\* GetRev: the assignment is done and k is returned.
GetRevAssigned(q) ==
    /\ ~fatal /\ qst[q].pc = "assigning"
    /\ LET val == qDeprels[q][qst[q].i]
           k == CHOOSE k \in LabelsOf(udDeprel, val) : TRUE
       IN  /\ revCache' = Put(revCache, val, k)
           /\ Returned(q, k)
    /\ mapWriting' = mapWriting \ {q}
    /\ UNCHANGED <<qDeprels, udDeprel, accesses, fatal>>

\* ----------------------------------------------------------- Register calls

\* The labels whose Register calls are recorded: "obl:to", "obl:in",
\* "obl:on" and "obl:arg", which the table has from the start.
RegLabels ==
    { StrOblColon \o <<116, 111>>, StrOblColon \o <<105, 110>>,
      StrOblColon \o <<111, 110>>, StrOblArg }

\* A run of 2^16 - 2^8 - 1 Register calls for labels outside RegLabels, each
\* a new one: it takes maxValue from 0x0100 to 0xffff.
BulkRegs == 65536 - 256 - 1

NoBulk == [from |-> 0, n |-> 0]

RegIdle == rgpc = "off" /\ regCalls = <<>> /\ regCount = 0 /\ regBulk = NoBulk

RegInit == rgpc = "run" /\ regCalls = <<>> /\ regCount = 0 /\ regBulk = NoBulk

\* One Register call for a label of RegLabels; a panic ends the process.
RegisterStep ==
    /\ rgpc = "run"
    /\ Len(regCalls) < MaxRegs
    /\ \E key \in RegLabels :
          LET r == Register(udDeprel, key)
          IN  /\ udDeprel' = r.udm
              /\ rgpc' = IF r.panic THEN "panic" ELSE "run"
              /\ regCount' = IF r.panic THEN regCount ELSE regCount + 1
              /\ regCalls' = Append(regCalls,
                    [ key   |-> key,
                      panic |-> r.panic,
                      was   |-> key \in DOMAIN udDeprel.items,
                      same  |-> r.udm = udDeprel,
                      code  |-> IF r.panic THEN 0 ELSE r.udm.items[key],
                      nth   |-> regCount + 1 ])
    /\ UNCHANGED regBulk

\* BulkRegs Register calls in a row, each for a new label outside RegLabels:
\* every one takes maxValue and adds one to it, modulo 2^16.
RegisterBulkStep ==
    /\ rgpc = "run"
    /\ regBulk = NoBulk
    /\ regBulk' = [from |-> udDeprel.maxValue, n |-> BulkRegs]
    /\ udDeprel' = [udDeprel EXCEPT !.maxValue = (@ + BulkRegs) % 65536]
    /\ regCount' = regCount + BulkRegs
    /\ UNCHANGED <<rgpc, regCalls>>

\* ------------------------------------------------- the Searcher on a stream

\* The number of tokens of the first n sentences of a file.
RECURSIVE TokensBefore(_, _)
TokensBefore(lens, n) == IF n = 0 THEN 0 ELSE TokensBefore(lens, n - 1) + lens[n]

\* The tokens of the i-th sentence: the parser numbers tokens from 0.
SentTokens(lens, i) == [j \in 1 .. lens[i] |-> TokensBefore(lens, i - 1) + j - 1]

\* What the parser delivers for a file whose sentences have the lengths
\* lens: for each sentence an <s> structure and then its tokens (the closing
\* </s> goes to ProcStructClose, which does nothing).
RECURSIVE VerticalEvents(_, _)
VerticalEvents(lens, i) ==
    IF i > Len(lens) THEN <<>>
    ELSE <<[kind |-> "struct", name |-> "s", idx |-> 0]>>
         \o [j \in 1 .. lens[i] |-> [kind |-> "token", name |-> "", idx |-> SentTokens(lens, i)[j]]]
         \o VerticalEvents(lens, i + 1)

\* A file may wrap its sentences in a <doc> structure.
VerticalFiles ==
    { [lens |-> l, doc |-> d] :
        l \in UNION { [1 .. k -> 0 .. MaxSentSize] : k \in 1 .. MaxVertSents },
        d \in BOOLEAN }

\* CircularList.Append with capacity MaxSentSize: a full list drops its
\* oldest item.
CircularAppend(list, x) ==
    IF Len(list) < MaxSentSize THEN Append(list, x) ELSE Append(Tail(list), x)

\* The ForEach of analyzeLastSent from item i on: the sentences it hands to
\* findPathsToRoot.
RECURSIVE AnalyzeWalk(_, _, _, _, _, _, _)
AnalyzeWalk(list, i, start, end, sentOpen, sent, out) ==
    IF i > Len(list) THEN out
    ELSE LET open1 == sentOpen \/ list[i] = start
             sent1 == IF open1 THEN Append(sent, list[i]) ELSE sent
         IN  IF list[i] = end
             THEN AnalyzeWalk(list, i + 1, start, end, FALSE, sent1,
                              IF Len(sent1) > 0 THEN Append(out, sent1) ELSE out)
             ELSE AnalyzeWalk(list, i + 1, start, end, open1, sent1, out)

analyzeLastSent(list, start, end) == AnalyzeWalk(list, 1, start, end, FALSE, <<>>, <<>>)

RECURSIVE SumLen(_)
SumLen(out) == IF out = <<>> THEN 0 ELSE Len(Head(out)) + SumLen(Tail(out))

SrchIdle ==
    /\ vertical = <<>> /\ prevTokens = <<>> /\ lastTokenIdx = 0
    /\ lastSentStartIdx = 0 /\ lastSentEndIdx = 0 /\ foundNewSent = FALSE
    /\ srchCorpusSize = 0 /\ srchLens = <<>> /\ analysed = <<>>

\* NewSearcher, and the file ParseVerticalFile is about to read.
SrchInit ==
    /\ \E f \in VerticalFiles :
          /\ srchLens = f.lens
          /\ vertical = (IF f.doc THEN <<[kind |-> "struct", name |-> "doc", idx |-> 0]>> ELSE <<>>)
                         \o VerticalEvents(f.lens, 1)
    /\ prevTokens = <<>> /\ lastTokenIdx = 0
    /\ lastSentStartIdx = 0 /\ lastSentEndIdx = 0 /\ foundNewSent = FALSE
    /\ srchCorpusSize = 0 /\ analysed = <<>>

ProcTokenStep ==
    /\ vertical # <<>> /\ Head(vertical).kind = "token"
    /\ vertical' = Tail(vertical)
    /\ prevTokens' = CircularAppend(prevTokens, Head(vertical).idx)
    /\ lastTokenIdx' = Head(vertical).idx
    /\ lastSentStartIdx' = IF foundNewSent THEN Head(vertical).idx ELSE lastSentStartIdx
    /\ foundNewSent' = FALSE
    /\ UNCHANGED <<lastSentEndIdx, srchCorpusSize, srchLens, analysed>>

ProcStructStep ==
    /\ vertical # <<>> /\ Head(vertical).kind = "struct"
    /\ vertical' = Tail(vertical)
    /\ IF Head(vertical).name = "s"
       THEN LET out == analyzeLastSent(prevTokens, lastSentStartIdx, lastTokenIdx)
            IN  /\ lastSentEndIdx' = lastTokenIdx
                /\ analysed' = analysed \o out
                /\ srchCorpusSize' = srchCorpusSize + SumLen(out)
                /\ foundNewSent' = TRUE
       ELSE UNCHANGED <<lastSentEndIdx, analysed, srchCorpusSize, foundNewSent>>
    /\ UNCHANGED <<prevTokens, lastTokenIdx, lastSentStartIdx, srchLens>>

\* ------------------------------------------------------- grouping keys

\* PoS codes of UDPoSMapping: none, NOUN, X, PART, PROPN|PROPN
GrpPoS == {0, 8, 16, 17, 28}
\* nsubj, root
GrpDeprels == {35, 46}
GrpTextTypes == {1, 2}
GrpLemmas == {<<97>>, <<98>>}

NoGrpEntry ==
    [ Lemma1 |-> <<>>, PoS1 |-> 0, Deprel1 |-> 0, Lemma2 |-> <<>>, PoS2 |-> 0,
      Deprel2 |-> 0, TextType |-> 0 ]

GrpEntries ==
    [ Lemma1 : GrpLemmas, PoS1 : GrpPoS, Deprel1 : GrpDeprels,
      Lemma2 : GrpLemmas, PoS2 : GrpPoS, Deprel2 : GrpDeprels,
      TextType : GrpTextTypes ]

\* The entries that differ from a in the PoS, deprel or lemma of one token,
\* or in the text type.
GrpVariants(a) ==
    ( { [a EXCEPT !.PoS1 = p] : p \in GrpPoS } \cup { [a EXCEPT !.PoS2 = p] : p \in GrpPoS }
      \cup { [a EXCEPT !.Deprel1 = d] : d \in GrpDeprels }
      \cup { [a EXCEPT !.Deprel2 = d] : d \in GrpDeprels }
      \cup { [a EXCEPT !.Lemma1 = l] : l \in GrpLemmas }
      \cup { [a EXCEPT !.Lemma2 = l] : l \in GrpLemmas }
      \cup { [a EXCEPT !.TextType = t] : t \in GrpTextTypes } ) \ {a}

NoGrpOut == [kind |-> "none", ka |-> <<>>, kb |-> <<>>]

GrpIdle == grpA = NoGrpEntry /\ grpB = NoGrpEntry /\ grpOut = NoGrpOut

GrpInit ==
    /\ grpA \in GrpEntries
    /\ grpB \in GrpVariants(grpA)
    /\ grpOut = NoGrpOut

\* The TokenFreq entry of the first token of a CollocFreq entry
GrpToken(cf) ==
    [Lemma |-> cf.Lemma1, PoS |-> cf.PoS1, Deprel |-> cf.Deprel1, TextType |-> cf.TextType]

\* TokenFreq.Key of the first tokens of grpA and grpB
TokenFreqKeyStep ==
    /\ grpOut' = [ kind |-> "token",
                   ka   |-> TokenFreqGroupingKey(GrpToken(grpA)),
                   kb   |-> TokenFreqGroupingKey(GrpToken(grpB)) ]
    /\ UNCHANGED <<grpA, grpB>>

\* CollocFreq.Key of grpA and grpB
CollocFreqKeyStep ==
    /\ grpOut' = [ kind |-> "colloc",
                   ka   |-> CollocFreqGroupingKey(grpA),
                   kb   |-> CollocFreqGroupingKey(grpB) ]
    /\ UNCHANGED <<grpA, grpB>>

\* ---------------------------------------------------------- specifications

InitDist == DistInit /\ KeyIdle /\ db = EmptyDB /\ SeqIdle /\ tidSeq = NewTokenIDSequence /\ ImpIdle
    /\ WrIdle /\ CmIdle /\ RunIdle /\ ConcIdle /\ RegIdle /\ SrchIdle /\ GrpIdle

NextDist ==
    \/ EncodeStep /\ UNCHANGED <<keyVars, db, seqVars, tidSeq, impVars, wrVars, cmVars, runVars, concVars, regVars, srchVars, grpVars>>
    \/ DecodeStep /\ UNCHANGED <<keyVars, db, seqVars, tidSeq, impVars, wrVars, cmVars, runVars, concVars, regVars, srchVars, grpVars>>

SpecDist == InitDist /\ [][NextDist]_vars

InitKey == DistIdle /\ KeyInit /\ db = EmptyDB /\ SeqIdle /\ tidSeq = NewTokenIDSequence /\ ImpIdle
    /\ WrIdle /\ CmIdle /\ RunIdle /\ ConcIdle /\ RegIdle /\ SrchIdle /\ GrpIdle

NextKey ==
    \/ KeyStore /\ UNCHANGED <<distVars, seqVars, tidSeq, impVars, wrVars, cmVars, runVars, concVars, regVars, srchVars, grpVars>>
    \/ KeyScan /\ UNCHANGED <<distVars, seqVars, tidSeq, impVars, wrVars, cmVars, runVars, concVars, regVars, srchVars, grpVars>>

SpecKey == InitKey /\ [][NextKey]_vars

InitSeq ==
    DistIdle /\ KeyIdle /\ db = EmptyDB /\ SeqInit /\ tidSeq = NewTokenIDSequence /\ ImpIdle
    /\ WrIdle /\ CmIdle /\ RunIdle /\ ConcIdle /\ RegIdle /\ SrchIdle /\ GrpIdle

NextSeq ==
    \/ SeqCall /\ UNCHANGED <<distVars, keyVars, db, impVars, wrVars, cmVars, runVars, concVars, regVars, srchVars, grpVars>>
    \/ SeqBulk /\ UNCHANGED <<distVars, keyVars, db, impVars, wrVars, cmVars, runVars, concVars, regVars, srchVars, grpVars>>

SpecSeq == InitSeq /\ [][NextSeq]_vars

InitImport ==
    DistIdle /\ KeyIdle /\ db = EmptyDB /\ SeqIdle /\ tidSeq = NewTokenIDSequence /\ ImpInit
    /\ WrIdle /\ CmIdle /\ RunIdle /\ ConcIdle /\ RegIdle /\ SrchIdle /\ GrpIdle

NextImport ==
    ImportSentenceStep /\ UNCHANGED <<distVars, keyVars, db, seqVars, tidSeq, wrVars, cmVars, runVars, concVars, regVars, srchVars, grpVars>>

SpecImport == InitImport /\ [][NextImport]_vars

InitStore ==
    /\ DistIdle /\ KeyIdle /\ db = EmptyDB /\ SeqIdle /\ tidSeq = NewTokenIDSequence
    /\ ImpIdle /\ WrInitAny /\ CmIdle /\ RunIdle /\ ConcIdle /\ RegIdle /\ SrchIdle /\ GrpIdle

NextStore ==
    \/ StoreToDbStep /\ UNCHANGED <<distVars, keyVars, seqVars, impVars, cmVars, runVars, concVars, regVars, srchVars, grpVars>>
    \/ StoreToDbAgainStep /\ UNCHANGED <<distVars, keyVars, seqVars, impVars, cmVars, runVars, concVars, regVars, srchVars, grpVars>>

SpecStore == InitStore /\ [][NextStore]_vars

InitStoreKeyed ==
    /\ DistIdle /\ KeyIdle /\ db = EmptyDB /\ SeqIdle /\ tidSeq = NewTokenIDSequence
    /\ ImpIdle /\ WrInitKeyed /\ CmIdle /\ RunIdle /\ ConcIdle /\ RegIdle /\ SrchIdle /\ GrpIdle

SpecStoreKeyed == InitStoreKeyed /\ [][NextStore]_vars

InitQuery ==
    /\ DistIdle /\ KeyIdle /\ db \in QueryStores /\ SeqIdle /\ tidSeq = NewTokenIDSequence
    /\ ImpIdle /\ WrIdle /\ CmInit /\ RunIdle /\ ConcIdle /\ RegIdle /\ SrchIdle /\ GrpIdle

NextQuery ==
    \/ CalculateMeasuresStep /\ UNCHANGED <<distVars, keyVars, seqVars, tidSeq, impVars, wrVars, runVars, concVars, regVars, srchVars, grpVars>>
    \/ GetCollocationsStep /\ UNCHANGED <<distVars, keyVars, seqVars, tidSeq, impVars, wrVars, runVars, concVars, regVars, srchVars, grpVars>>
    \/ GetLemmaIDStep /\ UNCHANGED <<distVars, keyVars, seqVars, tidSeq, impVars, wrVars, runVars, concVars, regVars, srchVars, grpVars>>

SpecQuery == InitQuery /\ [][NextQuery]_vars

InitRun ==
    /\ DistIdle /\ KeyIdle /\ db = EmptyDB /\ SeqIdle /\ tidSeq = NewTokenIDSequence
    /\ ImpIdle /\ WrIdle /\ CmIdle /\ RunInit /\ ConcIdle /\ RegIdle /\ SrchIdle /\ GrpIdle

NextRun ==
    \/ AnalyzeLastSentStep /\ UNCHANGED <<distVars, keyVars, seqVars, wrVars, cmVars, concVars, regVars, srchVars, grpVars>>
    \/ RunClearStep /\ UNCHANGED <<distVars, keyVars, seqVars, wrVars, cmVars, concVars, regVars, srchVars, grpVars>>
    \/ RunStoreToDbStep /\ UNCHANGED <<distVars, keyVars, seqVars, wrVars, cmVars, concVars, regVars, srchVars, grpVars>>
    \/ RunRegisterStep /\ UNCHANGED <<distVars, keyVars, seqVars, wrVars, cmVars, concVars, regVars, srchVars, grpVars>>
    \/ RunStoreMetadataStep /\ UNCHANGED <<distVars, keyVars, seqVars, wrVars, cmVars, concVars, regVars, srchVars, grpVars>>

SpecRun == InitRun /\ [][NextRun]_vars

InitConc ==
    /\ DistIdle /\ KeyIdle /\ db = EmptyDB /\ SeqIdle /\ tidSeq = NewTokenIDSequence
    /\ ImpIdle /\ WrIdle /\ CmIdle /\ RunIdle /\ ConcInit /\ RegIdle /\ SrchIdle /\ GrpIdle

ConcFrame ==
    UNCHANGED <<distVars, keyVars, db, seqVars, tidSeq, impVars, wrVars, cmVars,
                rpc, extendedDeprels, corpusSize, metadata, runSents, runEncoded, regVars, srchVars, grpVars>>

NextConc ==
    \/ \E q \in Queries : GetRevLookup(q) /\ ConcFrame
    \/ \E q \in Queries : GetRevAssign(q) /\ ConcFrame
    \/ \E q \in Queries : GetRevAssigned(q) /\ ConcFrame

SpecConc == InitConc /\ [][NextConc]_vars

InitReg ==
    /\ DistIdle /\ KeyIdle /\ db = EmptyDB /\ SeqIdle /\ tidSeq = NewTokenIDSequence
    /\ ImpIdle /\ WrIdle /\ CmIdle /\ RunIdle /\ ConcIdle /\ RegInit /\ SrchIdle /\ GrpIdle

RegFrame ==
    UNCHANGED <<distVars, keyVars, db, seqVars, tidSeq, impVars, wrVars, cmVars,
                rpc, extendedDeprels, corpusSize, metadata, runSents, runEncoded, concVars, srchVars, grpVars>>

NextReg ==
    \/ RegisterStep /\ RegFrame
    \/ RegisterBulkStep /\ RegFrame

SpecReg == InitReg /\ [][NextReg]_vars

InitSrch ==
    /\ DistIdle /\ KeyIdle /\ db = EmptyDB /\ SeqIdle /\ tidSeq = NewTokenIDSequence
    /\ ImpIdle /\ WrIdle /\ CmIdle /\ RunIdle /\ ConcIdle /\ RegIdle /\ SrchInit /\ GrpIdle

SrchFrame ==
    UNCHANGED <<distVars, keyVars, db, seqVars, tidSeq, impVars, wrVars, cmVars,
                runVars, concVars, regVars, grpVars>>

NextSrch ==
    \/ ProcTokenStep /\ SrchFrame
    \/ ProcStructStep /\ SrchFrame

SpecSrch == InitSrch /\ [][NextSrch]_vars

InitGrp ==
    /\ DistIdle /\ KeyIdle /\ db = EmptyDB /\ SeqIdle /\ tidSeq = NewTokenIDSequence
    /\ ImpIdle /\ WrIdle /\ CmIdle /\ RunIdle /\ ConcIdle /\ RegIdle /\ SrchIdle /\ GrpInit

GrpFrame ==
    UNCHANGED <<distVars, keyVars, db, seqVars, tidSeq, impVars, wrVars, cmVars,
                runVars, concVars, regVars, srchVars>>

NextGrp ==
    \/ TokenFreqKeyStep /\ GrpFrame
    \/ CollocFreqKeyStep /\ GrpFrame

SpecGrp == InitGrp /\ [][NextGrp]_vars

\* ------------------------------------------------------------------ claims

\* The integer nearest to 10 * distNum / DistDen, a tie going away from zero:
\* s = round(d * 10) of the claim, stated without the code's rounding routine.
NearestTenth ==
    CHOOSE s \in -((10 * MaxDistNum) \div DistDen + 1) .. ((10 * MaxDistNum) \div DistDen + 1) :
        /\ 2 * Abs(s * DistDen - 10 * distNum) <= DistDen
        /\ \A t \in {s - 1, s + 1} :
              2 * Abs(t * DistDen - 10 * distNum) <= DistDen => Abs(t) < Abs(s)

\* C1: DecodeDistance(EncodeDistance(d)) is clamp(round(d*10), -127, 127)/10:
\* the distance rounded to one decimal for d in [-12.7, 12.7], and -12.7 or
\* +12.7 with the sign of d beyond.
C1_DistanceRoundTrip ==
    dpc = "dec" =>
        /\ distOut = Max2(-127, Min2(127, NearestTenth))
        /\ (10 * Abs(distNum) <= 127 * DistDen => distOut = NearestTenth)
        /\ (10 * distNum > 127 * DistDen => distOut = 127)
        /\ (10 * distNum < -127 * DistDen => distOut = -127)

C1_Witness == dpc = "dec" /\ 10 * distNum < -127 * DistDen /\ distOut = -127

\* The fields of a search for (pos, tt, deprel) that the key keeps.
KeptPos(q) == q.pos > 0
KeptTT(q) == q.pos > 0 /\ q.textType > 0
KeptDeprel(q) == q.pos > 0 /\ q.textType > 0 /\ q.deprel > 0

\* C2: the search key keeps the fields up to the first zero one in the order
\* pos, textType, deprel, and the prefix scan visits exactly the stored
\* records with the same token id whose kept fields equal the searched ones.
C2_HierarchicalPrefix ==
    kpc = "scanned" =>
        /\ (qry.pos = 0 =>
              TokenFreqSearchKey(qry.tokenID, qry.pos, qry.textType, qry.deprel)
                 = TokenFreqSearchKey(qry.tokenID, 0, 0, 0))
        /\ (qry.pos > 0 /\ qry.textType = 0 =>
              TokenFreqSearchKey(qry.tokenID, qry.pos, qry.textType, qry.deprel)
                 = TokenFreqSearchKey(qry.tokenID, qry.pos, 0, 0))
        /\ \A id \in KeyIds, p \in KeyPos, t \in KeyTT, d \in KeyDeprel :
              TokenFreqKey(id, p, t, d) \in DOMAIN db =>
                 ( TokenFreqKey(id, p, t, d) \in scanKeys
                   <=> /\ id = qry.tokenID
                       /\ (KeptPos(qry) => p = qry.pos)
                       /\ (KeptTT(qry) => t = qry.textType)
                       /\ (KeptDeprel(qry) => d = qry.deprel) )
        /\ Len(scanRes) = Cardinality(scanKeys)

C2_Witness ==
    /\ kpc = "scanned"
    /\ qry.pos > 0 /\ qry.textType = 0 /\ qry.deprel > 0
    /\ Cardinality(scanKeys) = 2
    /\ Cardinality(DOMAIN db) = 2
    /\ \E k \in scanKeys : DecodeTokenFreqKey(k).Deprel1 # qry.deprel

\* C3: the first nextIfNotFound call for a key returns a newly minted id with
\* found = false, every later call for it the same id with found = true; the
\* n-th id minted is n, so distinct keys hold distinct ids and 0 is never
\* returned; the mint that would wrap the 32-bit counter panics.
C3_IdSequence ==
    /\ \A i \in 1 .. Len(seqCalls) :
          LET c == seqCalls[i]
          IN  /\ c.id # U32Zero
              /\ c.found <=> \E j \in 1 .. i - 1 : seqCalls[j].key = c.key
              /\ \A j \in 1 .. i - 1 :
                    (seqCalls[j].key = c.key) <=> (seqCalls[j].id = c.id)
              /\ ~c.found => c.id = c.nth
              /\ recall(tidSeq, c.key) = c.id
    /\ seqPanic => seqMints = U32Max

C3_Witness ==
    /\ seqPanic
    /\ Len(seqCalls) = 3
    /\ seqCalls[1].id = U32(1) /\ ~seqCalls[1].found
    /\ seqCalls[2].found
    /\ seqCalls[3].id = U32Max /\ ~seqCalls[3].found

\* The number of token occurrences in the imported paths that have the
\* text type, lemma, PoS and deprel of entry e.
Occurrences(e) ==
    Cardinality({ o \in (1 .. Len(sents)) \X (1 .. MaxPathLen) :
                    /\ o[2] <= Len(sents[o[1]])
                    /\ LET t == sents[o[1]][o[2]]
                       IN  /\ t.TextType = e.TextType /\ t.Lemma = e.Lemma
                           /\ t.PoS = e.PoS /\ t.Deprel = e.Deprel })

\* C7: after ImportSentence on any sequence of paths, the Freq of each entry
\* of the single-token map is the number of token occurrences that share its
\* grouping key (textType, lemma, pos, deprel).
C7_SingleFreqCounts ==
    \A k \in DOMAIN freqs.Single : freqs.Single[k].Freq = Occurrences(freqs.Single[k])

\* How many AddCooc calls of the last ImportSentence were for positions i, j.
CallsFor(i, j) ==
    Cardinality({c \in 1 .. Len(coocCalls) : coocCalls[c].i = i /\ coocCalls[c].j = j})

\* C8: ImportSentence on a path of n tokens calls AddCooc(t_i, t_j, 1, i - j)
\* exactly once for every ordered pair of positions i # j with |i - j| <= 2,
\* and for no other pair of positions.
C8_WindowPairs ==
    sents # <<>> =>
        LET n == Len(sents[Len(sents)])
        IN  /\ \A i \in 1 .. n, j \in 1 .. n :
                  CallsFor(i, j) = IF i # j /\ Abs(i - j) <= 2 THEN 1 ELSE 0
            /\ \A c \in 1 .. Len(coocCalls) :
                  coocCalls[c].freq = 1 /\ coocCalls[c].dist = coocCalls[c].i - coocCalls[c].j

\* Token id id has a lemma -> id record and an id -> lemma record.
HasLemma(id) ==
    /\ TokenIDToRevIndexKey(id) \in DOMAIN db
    /\ \E k \in DOMAIN db : k[1] = lemmaToIDPrefix /\ Uint32(db[k]) = id

\* C4: after StoreData on any input maps, every token id in a stored 0x04 or
\* 0x05 key (both endpoints of a pair) has a lemma -> id and an id -> lemma
\* record, and GetLemmaByID(GetLemmaID(lemma)) is the lemma, trimmed.
C4_EveryIdHasLemma ==
    wpc = "stored" =>
        /\ \A k \in DOMAIN db :
              /\ k[1] = singleTokenPrefix => HasLemma(DecodeTokenFreqKey(k).Token1ID)
              /\ k[1] = pairTokenPrefix =>
                    /\ HasLemma(DecodeCollFreqKey(k).Token1ID)
                    /\ HasLemma(DecodeCollFreqKey(k).Token2ID)
        /\ \A s \in DOMAIN singleFreqs :
              LET r == GetLemmaID(db, singleFreqs[s])
              IN  /\ r.ok
                  /\ GetLemmaByID(db, r.id) = [ok |-> TRUE, lemma |-> TrimSpace(singleFreqs[s].Lemma)]

\* The collocation key of a pair entry, with the ids of the sequence.
PairKey(e) ==
    CollFreqKey(recall(tidSeq, Lemma1Key(e)), e.PoS1, e.TextType, e.Deprel1,
                recall(tidSeq, Lemma2Key(e)), e.PoS2, e.Deprel2)

\* C5: after StoreData a pair entry of the input map is readable under its
\* collocation key iff its Freq >= minPairFreq; the stored frequency is Freq
\* and, for |AVGDist| <= 12.7, the decoded distance is within 0.1 of AVGDist.
C5_MinPairFreqFilter ==
    wpc = "stored" =>
        \A k \in DOMAIN pairFreqs :
            LET e == pairFreqs[k]
                d == e.AVGDist
            IN  /\ PairKey(e) \in DOMAIN db <=> e.Freq >= minPairFreq
                /\ PairKey(e) \in DOMAIN db =>
                      LET v == DecodeCollocValue(db[PairKey(e)])
                      IN  /\ v.Freq = e.Freq
                          /\ 10 * Abs(d.num) <= 127 * d.den =>
                                10 * Abs(v.Dist * d.den - 10 * d.num) <= 10 * d.den

C5_Witness ==
    /\ wpc = "stored"
    /\ \E k1, k2 \in DOMAIN pairFreqs :
          /\ pairFreqs[k1].Freq >= minPairFreq
          /\ pairFreqs[k1].AVGDist.den = 3
          /\ PairKey(pairFreqs[k1]) \in DOMAIN db
          /\ DecodeCollocValue(db[PairKey(pairFreqs[k1])]) = [Freq |-> 2, Dist |-> 3]
          /\ pairFreqs[k2].Freq < minPairFreq
          /\ PairKey(pairFreqs[k2]) \notin DOMAIN db

\* C6: each pair entry with Freq >= minPairFreq is stored so that the scan of
\* the 0x05 records of either endpoint finds the pair, with the other endpoint
\* as the second token.
C6_FoundFromBothEndpoints ==
    wpc = "stored" =>
        \A k \in DOMAIN pairFreqs :
            LET e == pairFreqs[k]
                id1 == recall(tidSeq, Lemma1Key(e))
                id2 == recall(tidSeq, Lemma2Key(e))
            IN  e.Freq >= minPairFreq =>
                  /\ \E x \in DOMAIN db :
                        /\ IsPrefix(AllCollFreqsOfToken(id1), x)
                        /\ DecodeCollFreqKey(x).Token2ID = id2
                  /\ \E x \in DOMAIN db :
                        /\ IsPrefix(AllCollFreqsOfToken(id2), x)
                        /\ DecodeCollFreqKey(x).Token2ID = id1

\* The pair entries grouped by sumCollFreqs.
CollEntries == {cmGroupers.sumCollFreqs.data[k] : k \in DOMAIN cmGroupers.sumCollFreqs.data}

\* C9: for every combination of grouping toggles CalculateMeasures installs,
\* the lemma-1 projection key of each grouped pair entry is the key under which
\* sumFreqs1 stored the single-token rows of the same token id with the same
\* retained pos / text type, and the lemma-2 projection key is the key under
\* which sumFreqs2 stored the rows of the second token.
C9_GroupingClosure ==
    cpc = "done" =>
        \A val \in CollEntries :
            /\ \A e \in cmLog.f1 :
                  ( /\ e.row.TokenID = val.Token1ID
                    /\ cmGroupers.sumCollFreqs.groupByPos1 => e.row.PoS = val.PoS1
                    /\ cmGroupers.sumCollFreqs.groupByTT => e.row.TextType = val.TextType )
                  => /\ e.key = GroupingKeyLemma1Binary(val)
                     /\ e.key \in DOMAIN cmGroupers.sumFreqs1.data
            /\ \A e \in cmLog.f2 :
                  ( /\ e.row.TokenID = val.Token2ID
                    /\ cmGroupers.sumCollFreqs.groupByPos2 => e.row.PoS = val.PoS2
                    /\ cmGroupers.sumCollFreqs.groupByTT => e.row.TextType = val.TextType )
                  => /\ e.key = GroupingKeyLemma2Binary(val)
                     /\ e.key \in DOMAIN cmGroupers.sumFreqs2.data

C9_Witness ==
    /\ cpc = "done"
    /\ cmArgs.collocateGroupByPos /\ cmArgs.collocateGroupByTextType /\ cmArgs.pos = <<>>
    /\ \E val \in CollEntries :
          /\ val.PoS1 = 0 /\ val.PoS2 = 15 /\ val.TextType = 2
          /\ \E e \in cmLog.f2 :
                /\ e.row.TokenID = val.Token2ID /\ e.row.PoS = 15 /\ e.row.TextType = 2
                /\ e.key = GroupingKeyLemma2Binary(val)
          /\ \E e \in cmLog.f1 :
                /\ e.row.TokenID = val.Token1ID /\ e.row.PoS = 8 /\ e.row.TextType = 2
                /\ e.key = GroupingKeyLemma1Binary(val)

\* C10: in a prefix query that matches several headword lemmas every returned
\* item has as headword the lemma whose id is the first token id of the pair
\* rows it aggregates, and each grouped pair is in the merged result exactly
\* once.
C10_OneHeadwordPerGroup ==
    (cpc = "done" /\ cmArgs.lemmaIsPrefix) =>
        /\ \A i \in 1 .. Len(cmOut) :
              GetLemmaID(db, [Lemma |-> cmOut[i].Lemma.Value])
                  = [ok |-> TRUE, id |-> cmGroupers.sumCollFreqs.data[cmOut[i].group].Token1ID]
        /\ \A k \in DOMAIN cmGroupers.sumCollFreqs.data :
              Cardinality({i \in 1 .. Len(cmResults) : cmResults[i].group = k}) = 1

\* C11: with the pos option given, every grouped pair was aggregated from
\* pair rows whose pos1 is that PoS, and the F(x) joined to it is a stored
\* frequency of the headword (the join finds an entry of sumFreqs1).
C11_PosRestrictsPairRows ==
    (cpc = "done" /\ cmArgs.pos # <<>>) =>
        \A k \in DOMAIN cmGroupers.sumCollFreqs.data :
            LET val == cmGroupers.sumCollFreqs.data[k]
            IN  /\ val.PoS1 = UDPoSMapping(cmArgs.pos)
                /\ GroupingKeyLemma1Binary(val) \in DOMAIN cmGroupers.sumFreqs1.data
                /\ \A i \in 1 .. Len(cmResults) :
                      cmResults[i].group = k => cmResults[i].Freq1 > 0

\* The comparison of the sort key the call chose
ChosenGreater(x, y) ==
    CASE cmArgs.sortBy = "ldice" -> LogDiceGreater(x, y)
      [] cmArgs.sortBy = "tscore" -> TScoreGreater(x, y)
      [] cmArgs.sortBy = "lmi" -> LMIGreater(x, y)
      [] cmArgs.sortBy = "rrf" -> RRFGreater(x, y)
      [] OTHER -> FALSE

\* C12: a call with limit >= 0 and a valid sortBy returns min(limit, n) of
\* the n scored items, in non-increasing order of the chosen score, and no
\* item left out has a strictly higher chosen score than a returned one.
C12_SortedAndCut ==
    cpc = "done" =>
        /\ Len(cmOut) = Min2(cmArgs.limit, Len(cmResults))
        /\ \A i \in 1 .. Len(cmOut) : \E k \in 1 .. Len(cmResults) : cmResults[k] = cmOut[i]
        /\ \A i, j \in 1 .. Len(cmOut) : i < j => ~ChosenGreater(cmOut[j], cmOut[i])
        /\ \A k \in 1 .. Len(cmResults) :
              (\A i \in 1 .. Len(cmOut) : cmOut[i] # cmResults[k]) =>
                  \A i \in 1 .. Len(cmOut) : ~ChosenGreater(cmResults[k], cmOut[i])

\* A call sorted by RRF whose limit cuts off an item of lower score.
C12_Witness ==
    /\ cpc = "done"
    /\ cmArgs.sortBy = "rrf"
    /\ cmArgs.limit = 1
    /\ Len(cmOut) = 1
    /\ \E k \in 1 .. Len(cmResults) : RRFGreater(cmOut[1], cmResults[k])

\* C14: CalculateMeasures accepts exactly the sort keys ldice, tscore, lmi,
\* ll and rrf and orders the result by the measure of the key; with any
\* other key or a negative limit it panics, before any read of the store.
C14_SortKeysAccepted ==
    cpc \in {"done", "panic"} =>
        /\ cpc = "panic" <=>
              \/ cmArgs.limit < 0
              \/ cmArgs.sortBy \notin {"ldice", "tscore", "lmi", "ll", "rrf"}
        /\ cpc = "panic" => cmResults = <<>> /\ cmLog = [f1 |-> {}, f2 |-> {}]
        /\ cpc = "done" =>
              \A i, j \in 1 .. Len(cmOut) :
                  i < j => ~(IF cmArgs.sortBy = "ll"
                             THEN LLIsNumber(cmOut[i]) /\ LLIsNumber(cmOut[j])
                                    /\ LLGreater(cmOut[j], cmOut[i])
                             ELSE ChosenGreater(cmOut[j], cmOut[i]))

\* The zero-based rank of item i of cmResults in ranking k of SortByRRF
RankOf(k, i) == (CHOOSE r \in 1 .. Len(cmRanks[k]) : cmRanks[k][r] = i) - 1

OwnRankScore(i) ==
    RRFWeight(RankOf(1, i)) + RRFWeight(RankOf(2, i))
        + RRFWeight(RankOf(3, i)) + RRFWeight(RankOf(4, i))

\* C15: after SortByRRF the RRFScore of every item is the sum over the four
\* rankings of 1 / (60 + r), r the item's own zero-based rank in the
\* ranking, and so at most 4/60, also for items that differ only in deprel
\* or in the PoS of the collocate.
C15_RRFScoreOfOwnRanks ==
    (cpc = "done" /\ cmArgs.sortBy = "rrf") =>
        \A i \in 1 .. Len(cmResults) :
            /\ cmResults[i].RRFScore = OwnRankScore(i)
            /\ cmResults[i].RRFScore <= 4 * RRFWeight(0)

SumOfRanks(i) == RankOf(1, i) + RankOf(2, i) + RankOf(3, i) + RankOf(4, i)

IndexOf(item) == CHOOSE k \in 1 .. Len(cmResults) : cmResults[k] = item

\* C16: with sortBy rrf the first returned item has the smallest sum of
\* ranks over the four measures, and items of equal RRF score are returned
\* in the order in which they were appended to the results.
C16_RRFFirstAndTies ==
    (cpc = "done" /\ cmArgs.sortBy = "rrf" /\ Len(cmOut) > 0) =>
        /\ \A k \in 1 .. Len(cmResults) :
              SumOfRanks(IndexOf(cmOut[1])) <= SumOfRanks(k)
        /\ \A i, j \in 1 .. Len(cmOut) :
              (i < j /\ cmOut[i].RRFScore = cmOut[j].RRFScore) =>
                  IndexOf(cmOut[i]) < IndexOf(cmOut[j])

\* C13: a query through GetCollocations without a limit option uses the
\* default limit 10: it returns min(10, n) of the n scored items.
C13_DefaultLimit ==
    (/\ cpc = "done"
     /\ cmOpts.via = "GetCollocations"
     /\ \A i \in 1 .. Len(cmOpts.options) : cmOpts.options[i].with # "WithLimit") =>
        Len(cmOut) = Min2(10, Len(cmResults))

\* The predicates of the predefined filters: nmod is 0x22, nsubj 0x23,
\* obj 0x27, iobj 0x1f, NOUN 0x08, VERB 0x0f; dist in tenths
PredefinedPredicate(filter, pos1, deprel, pos2, textType, dist) ==
    CASE filter = "modifiers-of" -> dist > 0 /\ deprel = 34 /\ pos1 = 8
      [] filter = "nouns-modified-by" -> dist < 0 /\ deprel = 34 /\ pos2 = 8
      [] filter = "verbs-object" -> dist < 0 /\ deprel = 35 /\ pos2 = 15
      [] filter = "verbs-subject" -> dist < 0 /\ deprel \in {39, 31} /\ pos2 = 15

\* The 0x05 records the call scanned that pass its text type and distance
\* conditions
ScannedRows ==
    { k \in DOMAIN db :
        /\ \E i \in 1 .. Len(GetLemmaIDsByPrefix(db, cmArgs.lemma)) :
              LET v == GetLemmaIDsByPrefix(db, cmArgs.lemma)[i]
              IN  /\ cmArgs.lemmaIsPrefix \/ v.Value = cmArgs.lemma
                  /\ \E d \in 1 .. Len(HeadDepSearches(cmArgs.isHead)) :
                        IsPrefix(AllCollFreqsOfTokenDir(HeadDepSearches(cmArgs.isHead)[d],
                                                        v.TokenID), k)
        /\ ~DecodeCollocValuePanics(db[k])
        /\ ReadableToRaw(cmArgs.textType) > 0 =>
              DecodeCollFreqKeyDir(k).TextType = ReadableToRaw(cmArgs.textType)
        /\ cmArgs.maxAvgCollocateDist > 0 =>
              Abs(DecodeCollocValue(db[k]).Dist) <= cmArgs.maxAvgCollocateDist }

\* The F(x,y) group a scanned record belongs to exists
Contributes(k) ==
    LET decKey == DecodeCollFreqKeyDir(k)
        entry  == [ Token1ID |-> decKey.Token1ID, PoS1 |-> decKey.Pos1,
                    Deprel |-> decKey.Deprel, Token2ID |-> decKey.Token2ID,
                    PoS2 |-> decKey.Pos2, Freq |-> DecodeCollocValue(db[k]).Freq,
                    AVGDist |-> DecodeCollocValue(db[k]).Dist,
                    TextType |-> decKey.TextType ]
    IN  CollGroupingKeyBinary(CollFreqRetained(cmGroupers.sumCollFreqs, entry))
            \in DOMAIN cmGroupers.sumCollFreqs.data

\* C17: with a predefined filter installed a scanned pair record contributes
\* to F(x,y) and F(y) exactly if the predicate of the filter holds for its
\* pos1, deprel, pos2, text type and mean distance.
C17_PredefinedFilters ==
    (cpc = "done" /\ cmArgs.customFilter # "nil") =>
        \A k \in ScannedRows :
            Contributes(k) <=>
                PredefinedPredicate(cmArgs.customFilter, DecodeCollFreqKeyDir(k).Pos1,
                                    DecodeCollFreqKeyDir(k).Deprel,
                                    DecodeCollFreqKeyDir(k).Pos2,
                                    DecodeCollFreqKeyDir(k).TextType,
                                    DecodeCollocValue(db[k]).Dist)

\* C18: GetLemmaID for a lemma that is not in the index returns the id 0 and
\* no error.
C18_MissingLemmaIsZero ==
    (cpc = "lookup" /\ EncodeLemmaKey([Lemma |-> cmLookup.lemma]) \notin DOMAIN db) =>
        cmLookup.id = U32Zero /\ ~cmLookup.err

\* The store without the pair records whose value cannot be decoded
SoundRows ==
    [ k \in { k \in DOMAIN db : ~(k[1] = pairTokenPrefix /\ DecodeCollocValuePanics(db[k])) }
        |-> db[k] ]

\* C19: a pair record whose value is not 5 bytes long is skipped by the
\* scan; the query returns what it computes from all the other records.
C19_CorruptRowSkipped ==
    (/\ cpc \in {"done", "panic"}
     /\ cmArgs.limit >= 0 /\ Validate(cmArgs.sortBy)
     /\ SoundRows # db) =>
        /\ cpc = "done"
        /\ cmGroupers = CalculateMeasures(SoundRows, cmArgs).acc.g
        /\ Len(cmResults) = Len(CalculateMeasures(SoundRows, cmArgs).acc.results)

\* C20: when an import run has finished, every compound label the path
\* extractor produced (obl:<preposition lemma>) was encoded, for each token
\* carrying it, as the code >= 0x0100 that the persisted deprel table assigns
\* to that label, and the store holds a single-token record of that token's
\* lemma under that code: the label is registered before any record
\* carrying it is encoded and written.
C20_CompoundLabelsUnderTableCode ==
    rpc = "done" =>
        \A e \in runEncoded :
            e.Readable \in extendedDeprels =>
                /\ e.Readable \in DOMAIN metadata.DeprelMap
                /\ metadata.DeprelMap[e.Readable] >= 256
                /\ e.Raw = metadata.DeprelMap[e.Readable]
                /\ \E k \in DOMAIN db :
                      /\ k[1] = singleTokenPrefix
                      /\ DecodeTokenFreqKey(k).Token1ID = GetLemmaID(db, [Lemma |-> e.Lemma]).id
                      /\ DecodeTokenFreqKey(k).Deprel1 = metadata.DeprelMap[e.Readable]

\* C21: running the write phase (Clear, then StoreData with a fresh id
\* sequence) a second time on the same aggregated maps leaves the store with
\* the same keys and values as the first time, the lemma -> id records
\* included, whatever the orders in which the maps were iterated.
C21_WritePhaseRepeatable == wpc = "again" => db = wrFirst

\* C22: two queries running on one opened DB share no mutable state: no
\* memory location written by one of them is read or written by the other;
\* for the reverse-lookup cache of the deprel mapping, used when the result
\* items are built, every access by two different queries is a read.
C22_NoSharedMutableState ==
    \A a, b \in accesses : a.q # b.q => a.kind = "r" /\ b.kind = "r"

\* The AddCooc calls ImportSentence made for each of the paths imported,
\* each call with the grouping key it was made on.
AllCoocCalls ==
    [ s \in DOMAIN sents |->
        LET calls == ImportSentence(NewFreqs, sents[s]).calls
        IN  [ c \in DOMAIN calls |->
                [ key  |-> CollocFreqGroupingKey(
                              newCollocFreq(sents[s][calls[c].i], sents[s][calls[c].j], 0, 0)),
                  dist |-> calls[c].dist ] ] ]

\* The calls <<s, c>> (call c of path s) of all made on the grouping key k.
SamplesOf(all, k) ==
    UNION { { <<s, c>> : c \in { c \in DOMAIN all[s] : all[s][c].key = k } } : s \in DOMAIN all }

\* The sum of the distance samples of the calls S.
RECURSIVE SumOfDistances(_, _)
SumOfDistances(all, S) ==
    IF S = {} THEN 0
    ELSE LET x == CHOOSE x \in S : TRUE
         IN  all[x[1]][x[2]].dist + SumOfDistances(all, S \ {x})

InBulk(code) == regBulk.n > 0 /\ (code - regBulk.from) % 65536 < regBulk.n

\* C24: starting from the base table, the Register calls with new labels
\* get the codes 0x0100, 0x0101, ... in call order; no label's code ever
\* changes; the label -> code map stays injective; a Register call with a
\* label that is present panics and leaves the table as it was.
C24_RegisterSequence ==
    /\ \A c \in DOMAIN regCalls :
          IF regCalls[c].was
          THEN regCalls[c].panic /\ regCalls[c].same
          ELSE /\ ~regCalls[c].panic
               /\ regCalls[c].code = 256 + regCalls[c].nth - 1
               /\ udDeprel.items[regCalls[c].key] = regCalls[c].code
    /\ \A l \in DOMAIN UDDeprelMapping.items : udDeprel.items[l] = UDDeprelMapping.items[l]
    /\ \A l1, l2 \in DOMAIN udDeprel.items :
          l1 # l2 => udDeprel.items[l1] # udDeprel.items[l2]
    /\ \A l \in DOMAIN udDeprel.items : ~InBulk(udDeprel.items[l])

\* How often the sentence sent is among the sentences of all.
TimesIn(all, sent) == Cardinality({ i \in DOMAIN all : all[i] = sent })

\* C25: once the whole file has been processed, every sentence of the file
\* (that has a token) has been handed to path extraction exactly once, and
\* the corpus size is the number of tokens of all its sentences.
C25_EverySentenceAnalysedOnce ==
    vertical = <<>> /\ srchLens # <<>> =>
        /\ \A i \in DOMAIN srchLens :
              srchLens[i] > 0 => TimesIn(analysed, SentTokens(srchLens, i)) = 1
        /\ srchCorpusSize = TokensBefore(srchLens, Len(srchLens))

\* C26: two TokenFreq entries that differ in text type, lemma, PoS or deprel
\* have different keys, and so have two CollocFreq entries that differ in
\* text type or in the lemma, PoS or deprel of either token, whatever PoS
\* codes of the table they carry.
C26_GroupingKeysDistinct ==
    /\ grpOut.kind = "token" /\ GrpToken(grpA) # GrpToken(grpB) => grpOut.ka # grpOut.kb
    /\ grpOut.kind = "colloc" /\ grpA # grpB => grpOut.ka # grpOut.kb

\* C27: from the attempt to clear the store until StoreMetadata has
\* succeeded, the store has no metadata record, and OpenDB fails on it.
C27_NoMetadataUntilFlushed ==
    rpc \in {"cleared", "stored", "registered", "panic"} => OpenDB(metadata) = "error"

\* The sum of the frequencies of a set of single-token rows
RECURSIVE SumFreqOf(_)
SumFreqOf(rows) ==
    IF rows = {} THEN 0
    ELSE LET r == CHOOSE r \in rows : TRUE IN r.Freq + SumFreqOf(rows \ {r})

\* The stored rows the scan added to sumFreqs2 under the key k
RowsUnder(k) == { e.row : e \in { e \in cmLog.f2 : e.key = k } }

\* C28: the F(y) joined to a grouped pair is the sum of the stored
\* single-token frequencies of the collocate that belong to the group, each
\* stored row counted once, however many pair rows name the collocate.
C28_CollocateFreqCountedOnce ==
    cpc = "done" =>
        \A val \in CollEntries :
            LET k == GroupingKeyLemma2Binary(val)
            IN  tokenFreqGroupingGet(cmGroupers.sumFreqs2, k).Freq = SumFreqOf(RowsUnder(k))

\* x < 2^32
BelowTwo32(x) == x \div 65536 < 65536

\* C29: for every grouped pair that is scored, Fxy <= Fx and Fxy <= Fy, so
\* that fx - fxy and fy - fxy of LLScore do not wrap, and 2 * Fxy, Fx + Fy
\* and Fx * Fy stay below 2^32.
C29_ScoringDoesNotWrap ==
    cpc = "done" =>
        \A i \in DOMAIN cmResults :
            /\ cmResults[i].Freq <= cmResults[i].Freq1
            /\ cmResults[i].Freq <= cmResults[i].Freq2
            /\ BelowTwo32(2 * cmResults[i].Freq)
            /\ BelowTwo32(cmResults[i].Freq1 + cmResults[i].Freq2)
            /\ BelowTwo32(cmResults[i].Freq1 * cmResults[i].Freq2)

\* The places of cmScan whose row went into the group of key k
ScanPlaces(k) == { i \in DOMAIN cmScan : cmScan[i].key = k }

\* The sum of the frequencies of the rows at the places P of cmScan
RECURSIVE SumScanFreq(_)
SumScanFreq(P) ==
    IF P = {} THEN 0
    ELSE LET i == CHOOSE i \in P : TRUE IN cmScan[i].row.Freq + SumScanFreq(P \ {i})

FirstPlace(P) == CHOOSE i \in P : \A j \in P : i <= j

\* C30: the Freq of a group of sumCollFreqs is the sum of the frequencies of
\* the rows added to it; every other field, AVGDist among them, is that of
\* the first row added (with the fields that are not grouped by set to 0).
C30_GroupKeepsFirstRow ==
    cpc = "done" =>
        \A k \in DOMAIN cmGroupers.sumCollFreqs.data :
            LET P     == ScanPlaces(k)
                val   == cmGroupers.sumCollFreqs.data[k]
                first == cmScan[FirstPlace(P)].row
            IN  /\ P # {}
                /\ val.Freq = SumScanFreq(P)
                /\ val.AVGDist = first.AVGDist
                /\ [val EXCEPT !.Freq = 0]
                     = [CollFreqRetained(cmGroupers.sumCollFreqs, first) EXCEPT !.Freq = 0]

\* A group of two rows with different mean distances
C30_Witness ==
    /\ cpc = "done"
    /\ \E k \in DOMAIN cmGroupers.sumCollFreqs.data :
          \E i, j \in ScanPlaces(k) :
              /\ i < j /\ cmScan[i].row.AVGDist # cmScan[j].row.AVGDist
              /\ cmGroupers.sumCollFreqs.data[k].AVGDist = cmScan[i].row.AVGDist
              /\ cmGroupers.sumCollFreqs.data[k].Freq >= cmScan[i].row.Freq + cmScan[j].row.Freq

====
